---- MODULE Spec2Model ----
(***************************************************************************)
(* TCG-Forensics CV backend: the pixel comparator, the authenticity        *)
(* aggregator and the request handlers around them.                        *)
(*                                                                         *)
(* Three source files hold three generations of the same server:           *)
(*   src/server.js         canvas build, /api/cv only                      *)
(*   src/unnamed/part_001  sharp + Puppeteer build (README, then server)   *)
(*   src/unnamed/part_002  sharp + Firecrawl build                         *)
(* The comparator and both PSA handlers are textually identical in         *)
(* part_001 and part_002; line numbers below refer to part_002 unless a    *)
(* definition says otherwise.                                              *)
(*                                                                         *)
(* Numbers.  Pixel metrics are computed in exact rational arithmetic and   *)
(* rounded where the code formats them with toFixed.  The aggregator's     *)
(* parseFloat / sum / divide / compare chain is computed in IEEE 754       *)
(* binary64 with round-to-nearest-even, because its thresholds are decided *)
(* by that rounding.  TLC integers are 32 bit, so wide values are kept as  *)
(* little-endian limb sequences (Bn...).                                   *)
(***************************************************************************)
EXTENDS Integers, Sequences, FiniteSets, TLC

(***************************************************************************)
(* Arithmetic support                                                      *)
(***************************************************************************)
BASE == 2 ^ 15

Min(a, b) == IF a <= b THEN a ELSE b

Max(a, b) == IF a >= b THEN a ELSE b

Abs(a) == IF a < 0 THEN 0 - a ELSE a

RECURSIVE Pow2(_)
Pow2(t) == IF t = 0 THEN 1 ELSE 2 * Pow2(t - 1)

RECURSIVE BnNorm(_)
BnNorm(a) ==
  IF a = <<>> THEN a
  ELSE IF a[Len(a)] = 0 THEN BnNorm(SubSeq(a, 1, Len(a) - 1)) ELSE a

RECURSIVE BnFromInt(_)
BnFromInt(n) == IF n = 0 THEN <<>> ELSE <<n % BASE>> \o BnFromInt(n \div BASE)

Limb(a, i) == IF i <= Len(a) THEN a[i] ELSE 0

RECURSIVE BnAddC(_, _, _, _)
BnAddC(a, b, i, c) ==
  IF i > Len(a) /\ i > Len(b)
  THEN (IF c = 0 THEN <<>> ELSE <<c>>)
  ELSE LET s == Limb(a, i) + Limb(b, i) + c
       IN  <<s % BASE>> \o BnAddC(a, b, i + 1, s \div BASE)

BnAdd(a, b) == BnAddC(a, b, 1, 0)

RECURSIVE BnSubC(_, _, _, _)
BnSubC(a, b, i, c) ==
  IF i > Len(a) THEN <<>>
  ELSE LET s == Limb(a, i) - Limb(b, i) - c
       IN  IF s < 0 THEN <<s + BASE>> \o BnSubC(a, b, i + 1, 1)
                    ELSE <<s>> \o BnSubC(a, b, i + 1, 0)

BnSub(a, b) == BnNorm(BnSubC(a, b, 1, 0))

RECURSIVE BnCmpAt(_, _, _)
BnCmpAt(a, b, i) ==
  IF i = 0 THEN 0
  ELSE IF a[i] > b[i] THEN 1
  ELSE IF a[i] < b[i] THEN -1
  ELSE BnCmpAt(a, b, i - 1)

BnCmp(a, b) ==
  IF Len(a) > Len(b) THEN 1
  ELSE IF Len(a) < Len(b) THEN -1
  ELSE BnCmpAt(a, b, Len(a))

RECURSIVE BnMulSmallC(_, _, _, _)
BnMulSmallC(a, s, i, c) ==
  IF i > Len(a) THEN BnFromInt(c)
  ELSE LET p == a[i] * s + c
       IN  <<p % BASE>> \o BnMulSmallC(a, s, i + 1, p \div BASE)

BnMulSmall(a, s) == IF s = 0 THEN <<>> ELSE BnMulSmallC(a, s, 1, 0)

RECURSIVE BnMulAt(_, _, _)
BnMulAt(a, b, j) ==
  IF j > Len(b) THEN <<>>
  ELSE BnAdd(BnMulSmall(a, b[j]),
             LET r == BnMulAt(a, b, j + 1) IN IF r = <<>> THEN r ELSE <<0>> \o r)

BnMul(a, b) == IF a = <<>> \/ b = <<>> THEN <<>> ELSE BnMulAt(a, b, 1)

RECURSIVE BnDivSmallAt(_, _, _, _)
BnDivSmallAt(a, s, i, r) ==
  IF i = 0 THEN [q |-> <<>>, r |-> r]
  ELSE LET cur  == r * BASE + a[i]
           rest == BnDivSmallAt(a, s, i - 1, cur % s)
       IN  [q |-> rest.q \o <<cur \div s>>, r |-> rest.r]

BnDivSmall(a, s) ==
  LET d == BnDivSmallAt(a, s, Len(a), 0) IN [q |-> BnNorm(d.q), r |-> d.r]

RECURSIVE Zeros(_)
Zeros(k) == IF k = 0 THEN <<>> ELSE <<0>> \o Zeros(k - 1)

BnShl(a, t) ==
  IF a = <<>> THEN a
  ELSE Zeros(t \div 15) \o BnMulSmall(a, Pow2(t % 15))

RECURSIVE IntBitLen(_)
IntBitLen(n) == IF n = 0 THEN 0 ELSE 1 + IntBitLen(n \div 2)

BnBitLen(a) == IF a = <<>> THEN 0 ELSE 15 * (Len(a) - 1) + IntBitLen(a[Len(a)])

BnShr(a, t) ==
  LET k == t \div 15
      s == t % 15
  IN  IF Len(a) <= k THEN <<>>
      ELSE BnDivSmall(SubSeq(a, k + 1, Len(a)), Pow2(s)).q

BnLow(a, t) == BnSub(a, BnShl(BnShr(a, t), t))

BnIsOdd(a) == a # <<>> /\ a[1] % 2 = 1

(* Signed wide integers: [s |-> -1 | 0 | 1, a |-> magnitude].              *)
ZFromInt(n) ==
  IF n = 0 THEN [s |-> 0, a |-> <<>>]
  ELSE IF n > 0 THEN [s |-> 1, a |-> BnFromInt(n)]
  ELSE [s |-> -1, a |-> BnFromInt(0 - n)]

ZMul(x, y) == [s |-> x.s * y.s, a |-> BnMul(x.a, y.a)]

ZAdd(x, y) ==
  IF x.s = 0 THEN y
  ELSE IF y.s = 0 THEN x
  ELSE IF x.s = y.s THEN [s |-> x.s, a |-> BnAdd(x.a, y.a)]
  ELSE LET c == BnCmp(x.a, y.a)
       IN  IF c = 0 THEN [s |-> 0, a |-> <<>>]
           ELSE IF c = 1 THEN [s |-> x.s, a |-> BnSub(x.a, y.a)]
           ELSE [s |-> y.s, a |-> BnSub(y.a, x.a)]

(***************************************************************************)
(* IEEE 754 binary64, finite and non-negative: [m, e] stands for m * 2^e   *)
(* with m = 0 or 2^52 <= m < 2^53.  Every value the aggregator touches is  *)
(* non-negative and far from overflow and underflow.                       *)
(***************************************************************************)
DZero == [m |-> <<>>, e |-> 0]

(* Round (M + f) * 2^e to nearest, ties to even; sticky says 0 < f < 1.    *)
RoundToDouble(M, e, sticky) ==
  LET L == BnBitLen(M)
      t == L - 53
      Carry(q2) == IF BnBitLen(q2) = 54 THEN [m |-> BnShr(q2, 1), e |-> e + t + 1]
                                        ELSE [m |-> q2, e |-> e + t]
      Nearest(q, c) == Carry(IF c = 1 \/ (c = 0 /\ (sticky \/ BnIsOdd(q)))
                             THEN BnAdd(q, <<1>>) ELSE q)
  IN  IF M = <<>> THEN DZero
      ELSE IF L <= 53 THEN [m |-> BnShl(M, 53 - L), e |-> e - (53 - L)]
      ELSE Nearest(BnShr(M, t), BnCmp(BnLow(M, t), BnShl(<<1>>, t - 1)))

(* parseFloat of the decimal string that prints k / D (D a power of ten).  *)
DFromDecimal(k, D) ==
  LET d == BnDivSmall(BnShl(BnFromInt(k), 75), D)
  IN  RoundToDouble(d.q, -75, d.r > 0)

DAdd(x, y) ==
  IF x.m = <<>> THEN y
  ELSE IF y.m = <<>> THEN x
  ELSE LET emin == Min(x.e, y.e)
       IN  RoundToDouble(BnAdd(BnShl(x.m, x.e - emin), BnShl(y.m, y.e - emin)),
                         emin, FALSE)

DDivInt(x, n) ==
  LET d == BnDivSmall(BnShl(x.m, 64), n)
  IN  RoundToDouble(d.q, x.e - 64, d.r > 0)

DCmp(x, y) ==
  IF x.m = <<>> /\ y.m = <<>> THEN 0
  ELSE IF x.m = <<>> THEN -1
  ELSE IF y.m = <<>> THEN 1
  ELSE LET emin == Min(x.e, y.e)
       IN  BnCmp(BnShl(x.m, x.e - emin), BnShl(y.m, y.e - emin))

DLess(x, y) == DCmp(x, y) = -1

DGreater(x, y) == DCmp(x, y) = 1

(* x * k for a double x and an integer 0 <= k < 2^15, correctly rounded.   *)
DMulInt(x, k) == RoundToDouble(BnMulSmall(x.m, k), x.e, FALSE)

(* Math.round: the nearest integer, halves upward, of a double below 2^31. *)
MathRound(x) ==
  LET t == 0 - x.e
      Whole(ip) == IF ip = <<>> THEN 0
                   ELSE IF Len(ip) = 1 THEN ip[1]
                   ELSE IF Len(ip) = 2 THEN ip[1] + BASE * ip[2]
                   ELSE ip[1] + BASE * ip[2] + BASE * BASE * ip[3]
  IN  IF x.m = <<>> THEN 0
      ELSE IF x.e >= 0 THEN BnShl(x.m, x.e)[1]
      ELSE IF BnCmp(BnLow(x.m, t), BnShl(<<1>>, t - 1)) >= 0
           THEN Whole(BnShr(x.m, t)) + 1 ELSE Whole(BnShr(x.m, t))

(* Number.prototype.toFixed on an exact non-negative rational n / d:       *)
(* the nearest multiple of 1 / scale, halves upward, as a count of units.  *)
ToFixedRat(n, d, scale) ==
  LET q == n \div d
      r == n % d
  IN  scale * q + (2 * scale * r + d) \div (2 * d)

(* Largest k in lo..hi with (2k - 1) * d <= n2, n2 = 2 * scale * n.        *)
RECURSIVE RatRoundSearch(_, _, _, _)
RatRoundSearch(n2, d, lo, hi) ==
  IF lo = hi THEN lo
  ELSE LET mid == (lo + hi + 1) \div 2
       IN  IF BnCmp(BnMulSmall(d, 2 * mid - 1), n2) <= 0
           THEN RatRoundSearch(n2, d, mid, hi)
           ELSE RatRoundSearch(n2, d, lo, mid - 1)

(* toFixed of a wide rational n / d in [0, 1]; scale < 2^14.               *)
ToFixedUnitRat(v, scale) ==
  RatRoundSearch(BnMulSmall(v.n, 2 * scale), v.d, 0, scale)

(* Largest k in lo..hi with (2k - 1)^2 * d <= n4, n4 = 4 * scale^2 * n.    *)
RECURSIVE RootRoundSearch(_, _, _, _)
RootRoundSearch(n4, d, lo, hi) ==
  IF lo = hi THEN lo
  ELSE LET mid == (lo + hi + 1) \div 2
       IN  IF BnCmp(BnMul(d, BnFromInt((2 * mid - 1) * (2 * mid - 1))), n4) <= 0
           THEN RootRoundSearch(n4, d, mid, hi)
           ELSE RootRoundSearch(n4, d, lo, mid - 1)

(* toFixed of sqrt(n / d) in [0, 1]; scale < 2^14.                         *)
ToFixedUnitRoot(v, scale) ==
  RootRoundSearch(BnMul(v.n, BnFromInt(4 * scale * scale)), v.d, 0, scale)

(***************************************************************************)
(* Pixel buffers.  A buffer is the interleaved RGBA byte array the image   *)
(* codec returns, as a sequence; At reads it with the code's 0-based index.*)
(***************************************************************************)
At(data, idx) == data[idx + 1]

Eager(f) == f @@ <<>>

(* The luma weights 0.299, 0.587 and 0.114 as the doubles the literals denote. *)
LumaWeights == Eager([k \in 1..3 |-> DFromDecimal(<<299, 587, 114>>[k], 1000)])

(* w[1] * v[1] + ... + w[k] * v[k], added left to right, each product and  *)
(* each sum rounded to binary64 (0 + x is x exactly).                      *)
RECURSIVE WeightedSum(_, _, _)
WeightedSum(w, v, k) ==
  IF k = 0 THEN DZero
  ELSE DAdd(WeightedSum(w, v, k - 1), DMulInt(w[k], v[k]))

(* A faulty variant of Luma: the exact weighted sum, rounded halves upward. *)
LumaExact(r, g, b) == (299 * r + 587 * g + 114 * b + 500) \div 1000

(* gray[i] = Math.round(0.299 * r + 0.587 * g + 0.114 * b), stored in a    *)
(* Uint8ClampedArray; computed in binary64 as the code does.               *)
Luma(r, g, b) ==
  Max(0, Min(255, MathRound(WeightedSum(LumaWeights, <<r, g, b>>, 3))))

rgbToGrayscale(imageData, width, height) ==
  Eager([i \in 0..(width * height - 1) |->
     Luma(At(imageData, i * 4), At(imageData, i * 4 + 1), At(imageData, i * 4 + 2))])

(* f[lo] + ... + f[hi], split in halves to keep the evaluation shallow.   *)
RECURSIVE SumRange(_, _, _)
SumRange(f, lo, hi) ==
  IF lo > hi THEN 0
  ELSE IF lo = hi THEN f[lo]
  ELSE LET mid == (lo + hi) \div 2
       IN  SumRange(f, lo, mid) + SumRange(f, mid + 1, hi)

SumTo(f, hi) == SumRange(f, 0, hi)

(***************************************************************************)
(* Cross-image comparator                                                  *)
(***************************************************************************)
HistBins == 8

HistLen == HistBins * HistBins * HistBins

(* Math.floor(v / 32) per channel, index r * 64 + g * 8 + b.               *)
HistIndex(imgData, idx) ==
  (At(imgData, idx) \div 32) * 64 + (At(imgData, idx + 1) \div 32) * 8
    + (At(imgData, idx + 2) \div 32)

(* The counting loop: hist[k] is the number of pixels i with index k.      *)
HistCount(imgData, pixelCount) ==
  LET idx == Eager([i \in 0..(pixelCount - 1) |-> HistIndex(imgData, i * 4)])
  IN Eager([k \in 0..(HistLen - 1) |->
     Cardinality({i \in 0..(pixelCount - 1) : idx[i] = k})])

(* Pearson correlation of the two normalised histograms, clamped to [0,1]. *)
(* hist[i] = c[i] / pixelCount and mean = (sum of hist) / 512, so over the *)
(* common denominator 512 * pixelCount the deviation d[i] has numerator    *)
(* 512 * c[i] - sum(c).  The result is the real number sqrt(n / d), kept   *)
(* as the pair [n, d]; n = d exactly when the function returns 1.          *)
calculateHistogramCorrelation(imgData1, imgData2, width, height) ==
  LET pixelCount == width * height
      hist1  == HistCount(imgData1, pixelCount)
      hist2  == HistCount(imgData2, pixelCount)
      mean1  == SumTo(hist1, HistLen - 1)
      mean2  == SumTo(hist2, HistLen - 1)
      d1     == Eager([i \in 0..(HistLen - 1) |-> HistLen * hist1[i] - mean1])
      d2     == Eager([i \in 0..(HistLen - 1) |-> HistLen * hist2[i] - mean2])
      sum12  == SumTo([i \in 0..(HistLen - 1) |-> d1[i] * d2[i]], HistLen - 1)
      sqSum1 == SumTo([i \in 0..(HistLen - 1) |-> d1[i] * d1[i]], HistLen - 1)
      sqSum2 == SumTo([i \in 0..(HistLen - 1) |-> d2[i] * d2[i]], HistLen - 1)
      num2   == BnMul(BnFromInt(Abs(sum12)), BnFromInt(Abs(sum12)))
      den2   == BnMul(BnFromInt(sqSum1), BnFromInt(sqSum2))
      unit   == BnMul(BnFromInt(HistLen * pixelCount), BnFromInt(HistLen * pixelCount))
  IN  IF sqSum1 = 0 \/ sqSum2 = 0
      THEN \* Math.sqrt(..) * Math.sqrt(..) is 0, so the divisor is "|| 1":
           \* the quotient is sum12 itself, sum12 / unit in real units
           IF sum12 <= 0 THEN [n |-> <<>>, d |-> <<1>>]
           ELSE IF BnCmp(BnFromInt(sum12), unit) >= 0 THEN [n |-> <<1>>, d |-> <<1>>]
           ELSE [n |-> num2, d |-> BnMul(unit, unit)]
      ELSE IF sum12 <= 0 THEN [n |-> <<>>, d |-> <<1>>]
      ELSE IF BnCmp(num2, den2) >= 0 THEN [n |-> <<1>>, d |-> <<1>>]
      ELSE [n |-> num2, d |-> den2]

(* Laplacian response at interior pixel (x, y), kernel 0 1 0 / 1 -4 1 / 0 1 0 *)
SharpKernel == <<0, 1, 0, 1, -4, 1, 0, 1, 0>>

KernelAt(gray, width, x, y, kernel) ==
  LET term == [k \in 0..8 |->
                 gray[(y + (k \div 3) - 1) * width + (x + (k % 3) - 1)] * kernel[k + 1]]
  IN  SumTo(term, 8)

(* The interior pixels in loop order, as 0-based indices into 0..count-1.  *)
InteriorCount(width, height) ==
  IF width < 3 \/ height < 3 THEN 0 ELSE (width - 2) * (height - 2)

InteriorX(width, j) == 1 + (j % (width - 2))

InteriorY(width, j) == 1 + (j \div (width - 2))

(* |sumSq / count - (sum / count)^2| as the rational n / d; with no        *)
(* interior pixel count is 0 and both quotients are 0 / 0, i.e. NaN.       *)
calculateSharpness(imgData, width, height) ==
  LET count == InteriorCount(width, height)
      Laplacian(gray) ==
        Eager([j \in 0..(count - 1) |->
           KernelAt(gray, width, InteriorX(width, j), InteriorY(width, j), SharpKernel)])
      Moments(sum, sumSq) ==
        [nan |-> FALSE, n |-> Abs(count * sumSq - sum * sum), d |-> count * count]
      Variance(lap) ==
        Moments(SumTo(lap, count - 1),
                SumTo([j \in 0..(count - 1) |-> lap[j] * lap[j]], count - 1))
  IN  IF count = 0 THEN [nan |-> TRUE, n |-> 0, d |-> 1]
      ELSE Variance(Laplacian(rgbToGrayscale(imgData, width, height)))

(* Math.abs(a - b) of two sharpness values.                                *)
SharpnessAbsDiff(a, b) ==
  IF a.nan \/ b.nan THEN [nan |-> TRUE, n |-> 0, d |-> 1]
  ELSE [nan |-> FALSE, n |-> Abs(a.n * b.d - b.n * a.d), d |-> a.d * b.d]

(* SSIM constants 6.5025 and 58.5225 in units of 1 / 10000.                *)
SsimC1 == 65025

SsimC2 == 585225

SsimScale == 10 ^ 4

(* f[lo] * g[lo] + ... + f[hi] * g[hi] as a wide integer: the products of  *)
(* a large image do not fit TLC's integers.                                *)
RECURSIVE ZDotRange(_, _, _, _)
ZDotRange(f, g, lo, hi) ==
  IF lo > hi THEN ZFromInt(0)
  ELSE IF lo = hi THEN ZMul(ZFromInt(f[lo]), ZFromInt(g[lo]))
  ELSE LET mid == (lo + hi) \div 2
       IN  ZAdd(ZDotRange(f, g, lo, mid), ZDotRange(f, g, mid + 1, hi))

(* The sums calculateSSIM takes over the two gray images: with             *)
(* n = width * height and S = sum of gray, mean = S / n, and var is the    *)
(* sum of (n * gray - S)^2, i.e. the code's variance times n^3.            *)
SsimStatistics(imgData1, imgData2, width, height) ==
  LET n == width * height
      Centred(gray, S) == Eager([i \in 0..(n - 1) |-> n * gray[i] - S])
      Moments(S1, S2, e1, e2) ==
        [n |-> n, S1 |-> S1, S2 |-> S2,
         var1  |-> ZDotRange(e1, e1, 0, n - 1),
         var2  |-> ZDotRange(e2, e2, 0, n - 1),
         covar |-> ZDotRange(e1, e2, 0, n - 1)]
      Sums(gray1, gray2, S1, S2) ==
        Moments(S1, S2, Centred(gray1, S1), Centred(gray2, S2))
      Of(gray1, gray2) ==
        Sums(gray1, gray2, SumTo(gray1, n - 1), SumTo(gray2, n - 1))
  IN  Of(rgbToGrayscale(imgData1, width, height),
         rgbToGrayscale(imgData2, width, height))

(* The SSIM quotient clamped to [0,1], as the rational n / d.  Each of the *)
(* four factors is written over the common denominator SsimScale * n^2     *)
(* (means) or SsimScale * n^3 (variances), which cancel between numerator  *)
(* and denominator.  c2num is the constant added to 2 * covar.             *)
SsimClamp(num, den) ==
  IF num.s <= 0 THEN [n |-> <<>>, d |-> <<1>>]
  ELSE IF BnCmp(num.a, den.a) >= 0 THEN [n |-> <<1>>, d |-> <<1>>]
  ELSE [n |-> num.a, d |-> den.a]

SsimQuotient(st, c2num) ==
  LET Z(k)  == ZFromInt(k)
      n     == st.n
      Quotient(c1n, c2n, s11, s22, s12) ==
        SsimClamp(ZMul(ZAdd(ZMul(Z(2 * SsimScale), s12), c1n),
                       ZAdd(ZMul(Z(2 * SsimScale), st.covar),
                            ZMul(Z(c2num), Z(n * n * n)))),
                  ZMul(ZAdd(ZMul(Z(SsimScale), ZAdd(s11, s22)), c1n),
                       ZAdd(ZMul(Z(SsimScale), ZAdd(st.var1, st.var2)), c2n)))
  IN  Quotient(ZMul(Z(SsimC1), Z(n * n)), ZMul(Z(SsimC2), Z(n * n * n)),
               ZMul(Z(st.S1), Z(st.S1)), ZMul(Z(st.S2), Z(st.S2)),
               ZMul(Z(st.S1), Z(st.S2)))

(* A faulty variant of calculateSSIM: the constant C2 is left out of the   *)
(* numerator.                                                              *)
calculateSSIMNoC2(imgData1, imgData2, width, height) ==
  SsimQuotient(SsimStatistics(imgData1, imgData2, width, height), 0)

(* calculateSSIM: whole-image SSIM of the two gray images.                 *)
calculateSSIM(imgData1, imgData2, width, height) ==
  SsimQuotient(SsimStatistics(imgData1, imgData2, width, height), SsimC2)

(***************************************************************************)
(* Images.  sharp decodes an upload or a download and resizes it to the    *)
(* comparison size with fit 'contain' (900 x 1200 in the code).  An image  *)
(* file is known by its name; Standardize gives the RGBA buffer the resize *)
(* yields for it.  The model works at StdWidth x StdHeight pixels, and a   *)
(* file's pixels repeat its pattern of palette colours.  Colours A, B and  *)
(* C have the same luminance (100) and fall in three different histogram   *)
(* bins; D and E are A brightened by 4 and 5; W is white.                  *)
(***************************************************************************)
StdWidth == 3

StdHeight == 4

Palette ==
  [A |-> <<100, 100, 100>>, B |-> <<200, 60, 44>>, C |-> <<0, 150, 105>>,
   D |-> <<104, 104, 104>>, E |-> <<105, 105, 105>>, T |-> <<0, 36, 12>>,
   W |-> <<255, 255, 255>>]

Pattern ==
  [u   |-> <<"A","B","C", "A","A","B", "C","B","A", "B","C","A">>,
   r1  |-> <<"C","C","C", "C","C","C", "C","C","C", "C","C","B">>,
   r2  |-> <<"B","B","B", "B","C","C", "B","B","B", "C","B","C">>,
   r3  |-> <<"A","B","A", "B","A","B", "C","B","A", "B","A","B">>,
   s4  |-> <<"A","B","C", "A","D","B", "C","B","A", "B","C","A">>,
   s5  |-> <<"A","B","C", "A","E","B", "C","B","A", "B","C","A">>,
   p   |-> <<"A","W","W", "A","A","W", "A","W","W", "A","W","W">>,
   pm  |-> <<"W","W","A", "W","A","A", "W","W","A", "W","W","A">>,
   pmb |-> <<"W","W","B", "W","B","B", "W","W","B", "W","W","B">>,
   p2  |-> <<"A","A","A", "A","W","W", "W","W","W", "A","W","W">>]

ImageNames == DOMAIN Pattern

(* The raw RGBA bytes of the resized image (ensureAlpha: alpha is 255).    *)
Standardize(name) ==
  LET pat == Pattern[name]
  IN  Eager([k \in 1..(4 * StdWidth * StdHeight) |->
        LET i  == (k - 1) \div 4
            ch == (k - 1) % 4
            px == Palette[pat[(i % Len(pat)) + 1]]
        IN  IF ch = 3 THEN 255 ELSE px[ch + 1]])

StandardBuffer == Eager([name \in ImageNames |-> Standardize(name)])

(***************************************************************************)
(* One comparison of the user's buffer with a reference buffer.  toFixed   *)
(* strings are kept as counts of their last digit: "0.4720" is 4720 for a  *)
(* 4-digit field.  A sharpness is [nan, v]; nan is the string "NaN".       *)
(***************************************************************************)
SharpToFixed(s, scale) ==
  IF s.nan THEN [nan |-> TRUE, v |-> 0]
  ELSE [nan |-> FALSE, v |-> ToFixedRat(s.n, s.d, scale)]

(* Each pure metric is evaluated once per image file or pair of files;  *)
(* the handlers read the value here.                                       *)
HistogramCorrelationOf ==
  Eager([pr \in ImageNames \X ImageNames |->
    calculateHistogramCorrelation(StandardBuffer[pr[1]], StandardBuffer[pr[2]],
                                  StdWidth, StdHeight)])

SSIMOf ==
  Eager([pr \in ImageNames \X ImageNames |->
    calculateSSIM(StandardBuffer[pr[1]], StandardBuffer[pr[2]], StdWidth, StdHeight)])

SharpnessOf ==
  Eager([name \in ImageNames |->
    calculateSharpness(StandardBuffer[name], StdWidth, StdHeight)])

(* A faulty variant of CompareMetrics: the reference's sharpness is taken  *)
(* with width and height exchanged.                                        *)
CompareMetricsSwapped(user, ref) ==
  LET Formatted(colorCorrelation, ssim, userSharpness, refSharpness) ==
        [colorCorrelation    |-> ToFixedUnitRoot(colorCorrelation, 10 ^ 4),
         ssim                |-> ToFixedUnitRat(ssim, 10 ^ 4),
         userSharpness       |-> SharpToFixed(userSharpness, 100),
         refSharpness        |-> SharpToFixed(refSharpness, 100),
         sharpnessDifference |->
           SharpToFixed(SharpnessAbsDiff(userSharpness, refSharpness), 100)]
  IN  Formatted(HistogramCorrelationOf[<<user, ref>>], SSIMOf[<<user, ref>>],
                SharpnessOf[user],
                calculateSharpness(StandardBuffer[ref], StdHeight, StdWidth))

(* /api/psa-compare, one pass of the loop: 4, 4, 2, 2 and 2 decimals.      *)
CompareMetrics(user, ref) ==
  LET Formatted(colorCorrelation, ssim, userSharpness, refSharpness) ==
        [colorCorrelation    |-> ToFixedUnitRoot(colorCorrelation, 10 ^ 4),
         ssim                |-> ToFixedUnitRat(ssim, 10 ^ 4),
         userSharpness       |-> SharpToFixed(userSharpness, 100),
         refSharpness        |-> SharpToFixed(refSharpness, 100),
         sharpnessDifference |->
           SharpToFixed(SharpnessAbsDiff(userSharpness, refSharpness), 100)]
  IN  Formatted(HistogramCorrelationOf[<<user, ref>>], SSIMOf[<<user, ref>>],
                SharpnessOf[user], SharpnessOf[ref])

(* /api/psa-verify, one pass of the inner loop: percentages with one       *)
(* decimal, sharpness with none.                                           *)
VerifyMetrics(user, ref) ==
  LET Formatted(colorCorr, ssim, userSharp, refSharp) ==
        [colorCorrelation     |-> ToFixedUnitRoot(colorCorr, 1000),
         structuralSimilarity |-> ToFixedUnitRat(ssim, 1000),
         userSharpness        |-> SharpToFixed(userSharp, 1),
         refSharpness         |-> SharpToFixed(refSharp, 1),
         sharpnessDiff        |-> SharpToFixed(SharpnessAbsDiff(userSharp, refSharp), 1)]
  IN  Formatted(HistogramCorrelationOf[<<user, ref>>], SSIMOf[<<user, ref>>],
                SharpnessOf[user], SharpnessOf[ref])

CompareOutcome ==
  Eager([pr \in ImageNames \X ImageNames |-> CompareMetrics(pr[1], pr[2])])

VerifyOutcome ==
  Eager([pr \in ImageNames \X ImageNames |-> VerifyMetrics(pr[1], pr[2])])

(***************************************************************************)
(* State.                                                                  *)
(*   build              the generation of the server that is deployed      *)
(*   FIRECRAWL_API_KEY  whether the environment variable is set            *)
(*   PSA_API_TOKEN      whether the environment variable is set            *)
(*   PSA_CACHE          the Map certNumber -> lookup result                *)
(*   browserInstance    the Puppeteer singleton: "null" or "launched"      *)
(*   request, response  the request being served and what is sent back     *)
(*   psaRef             what the reference lookup returned for it          *)
(*   results            /api/cv: the results pushed so far                 *)
(*   pc                 /api/cv: the await the handler stands at           *)
(*   analysed           /api/cv, history: the watched image answered first,*)
(*                      its results, and what has been served since        *)
(*   cmpUser, cmpRef, cmpMetrics   a comparator call and what it returned  *)
(*   lookups            the reference lookups in flight, one per request   *)
(*                      slot, each at the await it stands at               *)
(*   launches           history: the calls of puppeteer.launch so far      *)
(***************************************************************************)
VARIABLES build, FIRECRAWL_API_KEY, PSA_API_TOKEN, PSA_CACHE, browserInstance,
          request, response, psaRef, results, pc, analysed, cmpUser, cmpRef, cmpMetrics,
          lookups, launches

vars == <<build, FIRECRAWL_API_KEY, PSA_API_TOKEN, PSA_CACHE, browserInstance,
          request, response, psaRef, results, pc, analysed, cmpUser, cmpRef, cmpMetrics,
          lookups, launches>>

psaVars == <<FIRECRAWL_API_KEY, PSA_API_TOKEN, PSA_CACHE, browserInstance, psaRef>>

cvVars == <<results, pc, analysed>>

cmpVars == <<cmpUser, cmpRef, cmpMetrics>>

concVars == <<lookups, launches>>

(* The history of /api/cv before any watched image has been answered.      *)
NotAnalysed == [image |-> "", runs |-> 0, between |-> FALSE, first |-> <<>>]

(***************************************************************************)
(* The outside world of the PSA handlers.                                  *)
(*                                                                         *)
(* A URL is [kind, n, img]: kind says which of the scrapers' substring     *)
(* tests its text passes ("cert": contains cert, card or pokemon; "image": *)
(* contains only psa or image; "other": none), img is the image file a GET *)
(* of it yields ("unavailable": the fetch fails or is not OK).             *)
(***************************************************************************)
Url(kind, n, img) == [kind |-> kind, n |-> n, img |-> img]

CertUrl(img) == Url("cert", 0, img)

BrokenUrl(n) == Url("cert", n, "unavailable")

LogoUrl == Url("other", 0, "p2")

BannerUrl == Url("image", 0, "pm")

(* What a certificate page can show: the <img> elements in document order  *)
(* and the gallery thumbnails Puppeteer finds by selector.                 *)
Page(images, thumbs) == [images |-> images, thumbs |-> thumbs]

SinglePages == {Page(<<CertUrl(i)>>, <<>>) : i \in {"u", "r1", "s4", "s5", "pm", "pmb"}}

Pages ==
  SinglePages \cup
  { Page(<<>>, <<>>),
    Page(<<LogoUrl, BannerUrl>>, <<CertUrl("u")>>),
    Page(<<CertUrl("r1"), CertUrl("r2"), CertUrl("r3")>>, <<>>),
    Page(<<BrokenUrl(1), BrokenUrl(2), BrokenUrl(3), BrokenUrl(4), BrokenUrl(5),
           CertUrl("u")>>, <<>>),
    Page(<<CertUrl("u"), Url("cert", 1, "u"), Url("cert", 2, "u"), CertUrl("p")>>, <<>>),
    Page(<<LogoUrl, BrokenUrl(1), CertUrl("p2"), CertUrl("u"), CertUrl("s5"),
           CertUrl("p")>>, <<>>) }

CertNumbers == {"63437557", "10000001"}

(* The pages the site may show for a certificate.                          *)
SitePages(certNumber) ==
  IF certNumber = "63437557" THEN Pages
  ELSE {Page(<<CertUrl("p")>>, <<>>), Page(<<>>, <<>>)}

(* What the scraping service does when it is contacted.                    *)
Outcome(kind, error, page) == [kind |-> kind, error |-> error, page |-> page]

NoPage == Page(<<>>, <<>>)

NotContacted == Outcome("none", "", NoPage)

FirecrawlOutcomes(certNumber) ==
  {Outcome("page", "", p) : p \in SitePages(certNumber)} \cup
  { Outcome("http", "Firecrawl API error: 503", NoPage),
    Outcome("payload", "", NoPage),
    Outcome("payload", "cloudflare_blocked", NoPage),
    Outcome("throw", "fetch failed", NoPage) }

PuppeteerOutcomes(certNumber) ==
  {Outcome("page", "", p) : p \in SitePages(certNumber)} \cup
  { Outcome("launch", "Failed to launch the browser process!", NoPage),
    Outcome("throw", "Navigation timeout of 30000 ms exceeded", NoPage) }

(***************************************************************************)
(* Sequence helpers for slice and [...new Set(..)]; filter is SelectSeq.    *)
(***************************************************************************)
(* A faulty variant of Slice: the whole array, whatever the limit.         *)
SliceAll(s, k) == s

Slice(s, k) == SubSeq(s, 1, Min(k, Len(s)))

Elements(s) == {s[i] : i \in 1..Len(s)}

RECURSIVE Dedupe(_)
Dedupe(s) ==
  IF s = <<>> THEN <<>>
  ELSE LET front == Dedupe(SubSeq(s, 1, Len(s) - 1))
           last  == s[Len(s)]
       IN  IF last \in Elements(front) THEN front ELSE Append(front, last)

(***************************************************************************)
(* Reference lookup.  A lookup result is the object the scraper returns;   *)
(* an absent referenceImages / allImages field is the empty sequence, and  *)
(* error "" is an absent error field.                                      *)
(***************************************************************************)
NoLookup ==
  [called |-> FALSE, error |-> "", scraped |-> FALSE, certNumber |-> "",
   referenceImages |-> <<>>, allImages |-> <<>>]

LookupError(certNumber, message) ==
  [called |-> TRUE, error |-> message, scraped |-> FALSE, certNumber |-> certNumber,
   referenceImages |-> <<>>, allImages |-> <<>>]

LookupResult(certNumber, referenceImages, allImages) ==
  [called |-> TRUE, error |-> "", scraped |-> TRUE, certNumber |-> certNumber,
   referenceImages |-> referenceImages, allImages |-> allImages]

(* A faulty variant of CacheSet: the new entry replaces the whole map.     *)
CacheSetOnly(cache, key, value) == [c \in {key} |-> value]

(* PSA_CACHE.set(key, value)                                               *)
CacheSet(cache, key, value) ==
  [c \in (DOMAIN cache) \cup {key} |-> IF c = key THEN value ELSE cache[c]]

ScrapeMaxRefs == 10

FirecrawlCardImage(img) == img.kind \in {"cert", "image"}

(* A faulty variant of scrapePSAWithFirecrawl: the catch block stores the   *)
(* error object it returns.                                                *)
scrapePSAWithFirecrawlStoresError(certNumber, cache, apiKey, outcome) ==
  LET Failed(message) ==
        [result |-> LookupError(certNumber, message),
         cache  |-> CacheSet(cache, certNumber, LookupError(certNumber, message))]
  IN  IF certNumber \in DOMAIN cache
      THEN [result |-> cache[certNumber], cache |-> cache]
      ELSE IF ~apiKey
      THEN [result |-> LookupError(certNumber, "firecrawl_not_configured"),
            cache |-> cache]
      ELSE IF outcome.kind = "page"
      THEN LET images == outcome.page.images
               result == LookupResult(certNumber,
                                      Slice(SelectSeq(images, FirecrawlCardImage),
                                            ScrapeMaxRefs),
                                      images)
           IN  [result |-> result, cache |-> CacheSet(cache, certNumber, result)]
      ELSE Failed(IF outcome.kind = "payload" /\ outcome.error = ""
                  THEN "Firecrawl scrape failed" ELSE outcome.error)

(* part_002: the cache, the key check, the API call, the filter, the store.*)
scrapePSAWithFirecrawl(certNumber, cache, apiKey, outcome) ==
  IF certNumber \in DOMAIN cache
  THEN [result |-> cache[certNumber], cache |-> cache]
  ELSE IF ~apiKey
  THEN [result |-> LookupError(certNumber, "firecrawl_not_configured"), cache |-> cache]
  ELSE IF outcome.kind = "page"
  THEN LET images     == outcome.page.images
           cardImages == SelectSeq(images, FirecrawlCardImage)
           result     == LookupResult(certNumber, Slice(cardImages, ScrapeMaxRefs), images)
       IN  [result |-> result, cache |-> CacheSet(cache, certNumber, result)]
  ELSE IF outcome.kind = "payload"
  THEN [result |-> LookupError(certNumber,
                     IF outcome.error = "" THEN "Firecrawl scrape failed"
                                           ELSE outcome.error),
        cache |-> cache]
  ELSE [result |-> LookupError(certNumber, outcome.error), cache |-> cache]

PuppeteerCardImage(img) == img.kind = "cert"

ThumbnailMax == 3

(* data.images after the thumbnail pass: a thumbnail is pushed unless the  *)
(* list already includes it.                                               *)
RECURSIVE PushThumbnails(_, _)
PushThumbnails(images, thumbs) ==
  IF thumbs = <<>> THEN images
  ELSE PushThumbnails(IF Head(thumbs) \in Elements(images) THEN images
                      ELSE Append(images, Head(thumbs)),
                      Tail(thumbs))

(* part_001: the cache, getBrowser, the page scrape, the store.  The       *)
(* browser is launched on the first miss and kept.                         *)
scrapePSAWithPuppeteer(certNumber, cache, browser, outcome) ==
  IF certNumber \in DOMAIN cache
  THEN [result |-> cache[certNumber], cache |-> cache, browser |-> browser]
  ELSE IF browser = "null" /\ outcome.kind = "launch"
  THEN [result |-> LookupError(certNumber, outcome.error), cache |-> cache,
        browser |-> "null"]
  ELSE IF outcome.kind = "page"
  THEN LET allImages == outcome.page.images
           images    == PushThumbnails(SelectSeq(allImages, PuppeteerCardImage),
                                       Slice(outcome.page.thumbs, ThumbnailMax))
           result    == LookupResult(certNumber, Slice(Dedupe(images), ScrapeMaxRefs),
                                     Dedupe(allImages))
       IN  [result |-> result, cache |-> CacheSet(cache, certNumber, result),
            browser |-> "launched"]
  ELSE [result |-> LookupError(certNumber, outcome.error), cache |-> cache,
        browser |-> "launched"]

(* fetchPSAReference of either build.                                      *)
fetchPSAReference(b, certNumber, cache, apiKey, browser, outcome) ==
  IF b = "part_001"
  THEN scrapePSAWithPuppeteer(certNumber, cache, browser, outcome)
  ELSE LET s == scrapePSAWithFirecrawl(certNumber, cache, apiKey, outcome)
       IN  [result |-> s.result, cache |-> s.cache, browser |-> browser]

(* What the scraping service may do for this lookup; NotContacted when the *)
(* lookup is answered without a call.                                      *)
OutcomesFor(b, certNumber, cache, apiKey, browser) ==
  IF certNumber \in DOMAIN cache THEN {NotContacted}
  ELSE IF b = "part_001"
  THEN {o \in PuppeteerOutcomes(certNumber) : o.kind = "launch" => browser = "null"}
  ELSE IF apiKey THEN FirecrawlOutcomes(certNumber)
  ELSE {NotContacted}

(* loadReferenceImage: the standardized reference, or null.                *)
Null == "unavailable"

loadReferenceImage(imageUrl) == imageUrl.img

(* A lookup in flight.  pc is the await it stands at ("official": the      *)
(* fetch of api.psacard.com, "launch": puppeteer.launch, "scrape": the     *)
(* page load or the Firecrawl call), browser the instance getBrowser gave  *)
(* it, launch the number of the launch it started, result what it          *)
(* returned, stored whether it wrote PSA_CACHE.                            *)
Lookup(at, route, certNumber, browser, launch, result, stored) ==
  [pc |-> at, route |-> route, certNumber |-> certNumber, browser |-> browser,
   launch |-> launch, result |-> result, stored |-> stored]

Slots == 1..2

NoLookups == [s \in Slots |-> Lookup("idle", "", "", "null", 0, NoLookup, FALSE)]

NoLaunches == [invoked |-> 0, failed |-> 0]

(***************************************************************************)
(* Authenticity aggregator.  Each average is reduce((a, r) => a +          *)
(* parseFloat(r.field), 0) / length in binary64.                           *)
(***************************************************************************)
RECURSIVE SumDoubles(_)
SumDoubles(values) ==
  IF values = <<>> THEN DZero
  ELSE DAdd(SumDoubles(SubSeq(values, 1, Len(values) - 1)), values[Len(values)])

Average(values) == DDivInt(SumDoubles(values), Len(values))

ColorPenalty == 25

SsimPenalty == 25

SharpPenalty == 20

NoReferenceScore == 50

FakeBelow == 50

SuspiciousBelow == 75

(* /api/psa-compare, the branch comparisonResults.length > 0: averages,   *)
(* three thresholds, one warning per deduction.                            *)
CompareDeductions(comparisonResults) ==
  LET n        == Len(comparisonResults)
      sharpNaN == \E i \in 1..n : comparisonResults[i].sharpnessDifference.nan
      Deduct(lowColor, lowSSIM, sharpDiffers) ==
        [score    |-> 100 - (IF lowColor THEN ColorPenalty ELSE 0)
                          - (IF lowSSIM THEN SsimPenalty ELSE 0)
                          - (IF sharpDiffers THEN SharpPenalty ELSE 0),
         warnings |-> (IF lowColor THEN <<"Low color correlation">> ELSE <<>>)
                      \o (IF lowSSIM THEN <<"Low structural similarity">> ELSE <<>>)
                      \o (IF sharpDiffers THEN <<"Significant sharpness difference">>
                                          ELSE <<>>)]
      Threshold(avgColorCorr, avgSSIM, avgSharpDiff) ==
        Deduct(DLess(avgColorCorr, DFromDecimal(7, 10)),
               DLess(avgSSIM, DFromDecimal(6, 10)),
               ~sharpNaN /\ DGreater(avgSharpDiff, DFromDecimal(100, 1)))
  IN  Threshold(
        Average([i \in 1..n |->
                   DFromDecimal(comparisonResults[i].colorCorrelation, 10 ^ 4)]),
        Average([i \in 1..n |-> DFromDecimal(comparisonResults[i].ssim, 10 ^ 4)]),
        Average([i \in 1..n |->
                   DFromDecimal(comparisonResults[i].sharpnessDifference.v, 100)]))

(* A faulty variant of CompareScore: the else branch is left out, as it is *)
(* in /api/psa-verify.                                                     *)
CompareScoreNoElse(comparisonResults) ==
  IF Len(comparisonResults) > 0 THEN CompareDeductions(comparisonResults)
  ELSE [score |-> 100, warnings |-> <<>>]

(* /api/psa-compare, "Calculate final authenticity score".                 *)
CompareScore(comparisonResults) ==
  IF Len(comparisonResults) > 0 THEN CompareDeductions(comparisonResults)
  ELSE [score    |-> NoReferenceScore,
        warnings |-> <<"No PSA reference images available for comparison">>]

(* A faulty variant of CompareVerdict: the lower boundary is inclusive.     *)
CompareVerdictInclusive(score) ==
  IF score <= FakeBelow THEN "LIKELY_FAKE"
  ELSE IF score < SuspiciousBelow THEN "SUSPICIOUS"
  ELSE "LIKELY_AUTHENTIC"

CompareVerdict(score) ==
  IF score < FakeBelow THEN "LIKELY_FAKE"
  ELSE IF score < SuspiciousBelow THEN "SUSPICIOUS"
  ELSE "LIKELY_AUTHENTIC"

(* /api/psa-verify, "Step 4", the branch comparisonResults.length > 0: the *)
(* same thresholds on percentages.                                         *)
VerifyDeductions(comparisonResults) ==
  LET n        == Len(comparisonResults)
      sharpNaN == \E i \in 1..n : comparisonResults[i].sharpnessDiff.nan
      Deduct(lowColor, lowSSIM, sharpDiffers) ==
        [score    |-> 100 - (IF lowColor THEN ColorPenalty ELSE 0)
                          - (IF lowSSIM THEN SsimPenalty ELSE 0)
                          - (IF sharpDiffers THEN SharpPenalty ELSE 0),
         warnings |-> (IF lowColor THEN <<"Low color match">> ELSE <<>>)
                      \o (IF lowSSIM THEN <<"Low structural similarity">> ELSE <<>>)
                      \o (IF sharpDiffers THEN <<"Sharpness difference">> ELSE <<>>)]
      Threshold(avgColorCorr, avgSSIM, avgSharpDiff) ==
        Deduct(DLess(avgColorCorr, DFromDecimal(70, 1)),
               DLess(avgSSIM, DFromDecimal(60, 1)),
               ~sharpNaN /\ DGreater(avgSharpDiff, DFromDecimal(100, 1)))
  IN  Threshold(
        Average([i \in 1..n |->
                   DFromDecimal(comparisonResults[i].colorCorrelation, 10)]),
        Average([i \in 1..n |->
                   DFromDecimal(comparisonResults[i].structuralSimilarity, 10)]),
        Average([i \in 1..n |->
                   DFromDecimal(comparisonResults[i].sharpnessDiff.v, 1)]))

(* A faulty variant of VerifyScore: the deductions are taken once per      *)
(* comparison result instead of once on the averages.                      *)
RECURSIVE VerifyScorePerResult(_)
VerifyScorePerResult(comparisonResults) ==
  LET Both(one, rest) == [score    |-> rest.score - (100 - one.score),
                          warnings |-> one.warnings \o rest.warnings]
  IN  IF comparisonResults = <<>> THEN [score |-> 100, warnings |-> <<>>]
      ELSE Both(VerifyDeductions(<<Head(comparisonResults)>>),
                VerifyScorePerResult(Tail(comparisonResults)))

(* /api/psa-verify, "Step 4": the score stays 100 when nothing was         *)
(* compared; there is no else branch.                                      *)
VerifyScore(comparisonResults) ==
  IF Len(comparisonResults) > 0 THEN VerifyDeductions(comparisonResults)
  ELSE [score |-> 100, warnings |-> <<>>]

(* A faulty variant of VerifyVerdict: the upper boundary is exclusive.     *)
VerifyVerdictStrict(score) ==
  IF score > SuspiciousBelow THEN "LIKELY_AUTHENTIC"
  ELSE IF score >= FakeBelow THEN "SUSPICIOUS"
  ELSE "LIKELY_FAKE"

VerifyVerdict(score) ==
  IF score >= SuspiciousBelow THEN "LIKELY_AUTHENTIC"
  ELSE IF score >= FakeBelow THEN "SUSPICIOUS"
  ELSE "LIKELY_FAKE"

(***************************************************************************)
(* Responses.  authenticity.present is FALSE when the JSON body has no     *)
(* authenticity object; a warning is kept as the fixed start of its text.  *)
(***************************************************************************)
NoAuthenticity == [present |-> FALSE, score |-> 0, verdict |-> "", warnings |-> <<>>]

Authenticity(scored, verdict) ==
  [present |-> TRUE, score |-> scored.score, verdict |-> verdict,
   warnings |-> scored.warnings]

Reply(status, success, error, authenticity, comparison, referenceImages) ==
  [status |-> status, success |-> success, error |-> error,
   authenticity |-> authenticity, comparison |-> comparison,
   referenceImages |-> referenceImages]

NoReply == Reply(0, FALSE, "", NoAuthenticity, <<>>, <<>>)

Decodes(image) == image \in ImageNames

CompareMaxRefs == 3

(* The loop over psaRef.referenceImages.slice(0, 3).                       *)
RECURSIVE CompareLoop(_, _)
CompareLoop(user, refUrls) ==
  LET Pass(refUrl, refImg) ==
        IF refImg = Null THEN <<>>
        ELSE <<[referenceUrl |-> refUrl] @@ CompareOutcome[<<user, refImg>>]>>
  IN  IF refUrls = <<>> THEN <<>>
      ELSE Pass(Head(refUrls), loadReferenceImage(Head(refUrls)))
           \o CompareLoop(user, Tail(refUrls))

(* POST /api/psa-compare                                                   *)
PsaCompareHandler(b, userImage, certNumber, cache, apiKey, browser, outcome) ==
  LET Failed(status, error) ==
        [response |-> Reply(status, FALSE, error, NoAuthenticity, <<>>, <<>>),
         psaRef |-> NoLookup, cache |-> cache, browser |-> browser]
      Answer(look, comparisonResults, scored) ==
        [response |-> Reply(200, TRUE, "",
                            Authenticity(scored, CompareVerdict(scored.score)),
                            comparisonResults, <<>>),
         psaRef |-> look.result, cache |-> look.cache, browser |-> look.browser]
      Finish(look, comparisonResults) ==
        Answer(look, comparisonResults, CompareScore(comparisonResults))
      Compare(look) ==
        LET ref == look.result
        IN  IF ref.error = "cloudflare_blocked"
            THEN [response |-> Reply(200, FALSE, "cloudflare_blocked", NoAuthenticity,
                                     <<>>, <<>>),
                  psaRef |-> ref, cache |-> look.cache, browser |-> look.browser]
            ELSE Finish(look,
                       IF Len(ref.referenceImages) > 0
                       THEN CompareLoop(userImage, Slice(ref.referenceImages, CompareMaxRefs))
                       ELSE <<>>)
  IN  IF userImage = "" \/ certNumber = ""
      THEN Failed(400, "Missing userImage or certNumber")
      ELSE IF ~Decodes(userImage)
      THEN Failed(500, "PSA comparison failed")
      ELSE Compare(fetchPSAReference(b, certNumber, cache, apiKey, browser, outcome))

VerifyMaxRefs == 5

VerifyMaxUserImages == 3

(* "Step 2": the references that download, in order.                       *)
DownloadReferences(allImages) ==
  SelectSeq(Slice(allImages, VerifyMaxRefs), LAMBDA imgUrl : imgUrl.img # Null)

(* "Step 3": every user image against every downloaded reference.          *)
RECURSIVE VerifyInner(_, _)
VerifyInner(userImg, refs) ==
  IF refs = <<>> THEN <<>>
  ELSE <<[referenceUrl |-> Head(refs)] @@ VerifyOutcome[<<userImg, Head(refs).img>>]>>
       \o VerifyInner(userImg, Tail(refs))

RECURSIVE VerifyLoop(_, _)
VerifyLoop(userImages, refs) ==
  IF userImages = <<>> THEN <<>>
  ELSE VerifyInner(Head(userImages), refs) \o VerifyLoop(Tail(userImages), refs)

(* POST /api/psa-verify.  part_002 calls scrapePSAWithPuppeteer, which it  *)
(* does not define: the ReferenceError is caught and answered with 500.    *)
PsaVerifyHandler(b, userImages, certNumber, cache, browser, outcome) ==
  LET compared == Slice(userImages, VerifyMaxUserImages)
      Failed(status, error) ==
        [response |-> Reply(status, FALSE, error, NoAuthenticity, <<>>, <<>>),
         psaRef |-> NoLookup, cache |-> cache, browser |-> browser]
      Answer(look, referenceImages, comparisonResults, scored) ==
        [response |-> Reply(200, TRUE, "",
                            Authenticity(scored, VerifyVerdict(scored.score)),
                            comparisonResults, referenceImages),
         psaRef |-> look.result, cache |-> look.cache, browser |-> look.browser]
      Finish(look, referenceImages, comparisonResults) ==
        Answer(look, referenceImages, comparisonResults, VerifyScore(comparisonResults))
      Compare(look, referenceImages) ==
        LET runs == Len(userImages) > 0 /\ Len(referenceImages) > 0
        IN  IF runs /\ \E i \in 1..Len(compared) : ~Decodes(compared[i])
            THEN [response |-> Reply(500, FALSE,
                                     "Input buffer contains unsupported image format",
                                     NoAuthenticity, <<>>, <<>>),
                  psaRef |-> look.result, cache |-> look.cache, browser |-> look.browser]
            ELSE Finish(look, referenceImages,
                       IF runs THEN VerifyLoop(compared, referenceImages) ELSE <<>>)
      Scraped(look) ==
        LET psaData == look.result
        IN  IF psaData.error # ""
            THEN [response |-> Reply(200, FALSE, psaData.error, NoAuthenticity, <<>>, <<>>),
                  psaRef |-> psaData, cache |-> look.cache, browser |-> look.browser]
            ELSE Compare(look, DownloadReferences(psaData.allImages))
  IN  IF certNumber = "" THEN Failed(400, "Missing certNumber")
      ELSE IF b # "part_001" THEN Failed(500, "scrapePSAWithPuppeteer is not defined")
      ELSE Scraped(scrapePSAWithPuppeteer(certNumber, cache, browser, outcome))

(***************************************************************************)
(* GET /api/psa-reference/:certNumber.                                     *)
(***************************************************************************)
KNOWN_PSA_CERTS == {"63437557"}

(* What api.psacard.com does when it is asked: "valid" is a body with      *)
(* IsValidRequest and ServerMessage 'Request successful', "invalid" any    *)
(* other body, "throw" a failed fetch; "none" when it is not asked.        *)
OfficialOutcomes == {"valid", "invalid", "throw"}

(* The object the official-API path builds, stores and sends: scraped is   *)
(* false and there is no referenceImages or allImages field.               *)
OfficialResult(certNumber) ==
  [called |-> TRUE, error |-> "", scraped |-> FALSE, certNumber |-> certNumber,
   referenceImages |-> <<>>, allImages |-> <<>>]

(* part_001 always goes to fetchPSAReference; part_002 tries the cache,    *)
(* the known certificates and the official API first.                      *)
PsaReferenceHandler(b, certNumber, cache, apiKey, token, browser, official, outcome) ==
  LET Send(ref, nextCache, nextBrowser) ==
        [response |-> Reply(200, FALSE, ref.error, NoAuthenticity, <<>>,
                            ref.referenceImages),
         psaRef |-> ref, cache |-> nextCache, browser |-> nextBrowser]
      Fallback(look) == Send(look.result, look.cache, look.browser)
  IN  IF b = "part_001"
      THEN Fallback(fetchPSAReference(b, certNumber, cache, apiKey, browser, outcome))
      ELSE IF certNumber \in DOMAIN cache
      THEN Send(cache[certNumber], cache, browser)
      ELSE IF certNumber \in KNOWN_PSA_CERTS
      THEN Send(NoLookup, cache, browser)
      ELSE IF token /\ official = "valid"
      THEN Send(OfficialResult(certNumber),
                CacheSet(cache, certNumber, OfficialResult(certNumber)), browser)
      ELSE Fallback(fetchPSAReference(b, certNumber, cache, apiKey, browser, outcome))

(***************************************************************************)
(* The PSA handlers as actions.  A handler runs from request to response;  *)
(* what the scraping service answers is the action's third input.          *)
(***************************************************************************)
Request(handler, userImages, certNumber) ==
  [handler |-> handler, userImages |-> userImages, certNumber |-> certNumber]

NoRequest == Request("", <<>>, "")

(* Request bodies: "" is a missing field, "corrupt" a string that is not   *)
(* an image.                                                               *)
UserImageInputs == {"", "corrupt", "u", "p"}

UserImageListInputs ==
  {<<>>, <<"u">>, <<"p">>, <<"u", "p">>, <<"u", "corrupt">>, <<"u", "u", "u", "p">>}

CertInputs == CertNumbers \cup {""}

PsaCompare(userImage, certNumber, outcome) ==
  /\ outcome \in (IF userImage # "" /\ certNumber # "" /\ Decodes(userImage)
                  THEN OutcomesFor(build, certNumber, PSA_CACHE, FIRECRAWL_API_KEY,
                                   browserInstance)
                  ELSE {NotContacted})
  /\ LET Answer(done) ==
           /\ request' = Request("psa-compare", <<userImage>>, certNumber)
           /\ response' = done.response
           /\ psaRef' = done.psaRef
           /\ PSA_CACHE' = done.cache
           /\ browserInstance' = done.browser
     IN  Answer(PsaCompareHandler(build, userImage, certNumber, PSA_CACHE,
                                  FIRECRAWL_API_KEY, browserInstance, outcome))
  /\ UNCHANGED <<build, FIRECRAWL_API_KEY, PSA_API_TOKEN, cvVars, cmpVars, concVars>>

PsaVerify(userImages, certNumber, outcome) ==
  /\ outcome \in (IF certNumber # "" /\ build = "part_001"
                  THEN OutcomesFor(build, certNumber, PSA_CACHE, FIRECRAWL_API_KEY,
                                   browserInstance)
                  ELSE {NotContacted})
  /\ LET Answer(done) ==
           /\ request' = Request("psa-verify", userImages, certNumber)
           /\ response' = done.response
           /\ psaRef' = done.psaRef
           /\ PSA_CACHE' = done.cache
           /\ browserInstance' = done.browser
     IN  Answer(PsaVerifyHandler(build, userImages, certNumber, PSA_CACHE,
                                 browserInstance, outcome))
  /\ UNCHANGED <<build, FIRECRAWL_API_KEY, PSA_API_TOKEN, cvVars, cmpVars, concVars>>

(* Whether the route asks the official API, and whether it goes on to the   *)
(* scraper, for this certificate in this state.                            *)
AsksOfficial(b, certNumber, cache, token) ==
  b = "part_002" /\ certNumber \notin DOMAIN cache /\ certNumber \notin KNOWN_PSA_CERTS
  /\ token

FallsBack(b, certNumber, cache, token, official) ==
  \/ b = "part_001"
  \/ /\ certNumber \notin DOMAIN cache
     /\ certNumber \notin KNOWN_PSA_CERTS
     /\ ~(token /\ official = "valid")

PsaReference(certNumber, official, outcome) ==
  /\ official \in (IF AsksOfficial(build, certNumber, PSA_CACHE, PSA_API_TOKEN)
                   THEN OfficialOutcomes ELSE {"none"})
  /\ outcome \in (IF FallsBack(build, certNumber, PSA_CACHE, PSA_API_TOKEN, official)
                  THEN OutcomesFor(build, certNumber, PSA_CACHE, FIRECRAWL_API_KEY,
                                   browserInstance)
                  ELSE {NotContacted})
  /\ LET Answer(done) ==
           /\ request' = Request("psa-reference", <<>>, certNumber)
           /\ response' = done.response
           /\ psaRef' = done.psaRef
           /\ PSA_CACHE' = done.cache
           /\ browserInstance' = done.browser
     IN  Answer(PsaReferenceHandler(build, certNumber, PSA_CACHE, FIRECRAWL_API_KEY,
                                    PSA_API_TOKEN, browserInstance, official, outcome))
  /\ UNCHANGED <<build, FIRECRAWL_API_KEY, PSA_API_TOKEN, cvVars, cmpVars, concVars>>

AllOutcomes ==
  {NotContacted} \cup UNION {FirecrawlOutcomes(c) \cup PuppeteerOutcomes(c) : c \in CertNumbers}

Init ==
  /\ build \in {"part_001", "part_002"}
  /\ FIRECRAWL_API_KEY \in (IF build = "part_002" THEN BOOLEAN ELSE {FALSE})
  /\ PSA_API_TOKEN \in (IF build = "part_002" THEN BOOLEAN ELSE {FALSE})
  /\ PSA_CACHE = <<>>
  /\ browserInstance = "null"
  /\ request = NoRequest
  /\ response = NoReply
  /\ psaRef = NoLookup
  /\ results = <<>>
  /\ pc = "idle"
  /\ analysed = NotAnalysed
  /\ cmpUser = <<>>
  /\ cmpRef = <<>>
  /\ cmpMetrics = <<>>
  /\ lookups = NoLookups
  /\ launches = NoLaunches

Next ==
  \/ \E userImage \in UserImageInputs, certNumber \in CertInputs, outcome \in AllOutcomes :
       PsaCompare(userImage, certNumber, outcome)
  \/ \E userImages \in UserImageListInputs, certNumber \in CertInputs,
        outcome \in AllOutcomes :
       PsaVerify(userImages, certNumber, outcome)
  \/ \E certNumber \in CertNumbers, official \in OfficialOutcomes \cup {"none"},
        outcome \in AllOutcomes :
       PsaReference(certNumber, official, outcome)

Spec == Init /\ [][Next]_vars

(***************************************************************************)
(* The comparator on its own.  One pass of the comparison loop calls       *)
(* calculateHistogramCorrelation, calculateSSIM and calculateSharpness     *)
(* (user, then reference) in this order on two buffers of the same size;   *)
(* the functions are the same text in part_001 and part_002.  The inputs   *)
(* are small tiled images of every size up to MaxDim x MaxDim, and one     *)
(* 512 x 1 image with a pixel in each of the 512 histogram bins.           *)
(***************************************************************************)
MaxDim == 2

CmpPatterns ==
  { <<"A">>, <<"W">>, <<"A", "B">>, <<"A", "W">>, <<"B", "C", "A">>,
    <<"A", "D", "B", "W">>, <<"T", "A">> }

Image(data, width, height) == [data |-> data, width |-> width, height |-> height]

Tiled(pattern, width, height) ==
  Image(Eager([k \in 1..(4 * width * height) |->
          LET i  == (k - 1) \div 4
              ch == (k - 1) % 4
              px == Palette[pattern[(i % Len(pattern)) + 1]]
          IN  IF ch = 3 THEN 255 ELSE px[ch + 1]]),
        width, height)

SpectrumImage ==
  Image(Eager([k \in 1..(4 * HistLen) |->
          LET i  == (k - 1) \div 4
              ch == (k - 1) % 4
          IN  IF ch = 3 THEN 255
              ELSE IF ch = 0 THEN 32 * (i \div (HistBins * HistBins))
              ELSE IF ch = 1 THEN 32 * ((i \div HistBins) % HistBins)
              ELSE 32 * (i % HistBins)]),
        HistLen, 1)

CmpInputs ==
  { <<Tiled(p, w, h), Tiled(q, w, h)>> :
      p \in CmpPatterns, q \in CmpPatterns, w \in 1..MaxDim, h \in 1..MaxDim }
  \cup {<<SpectrumImage, SpectrumImage>>}

UnitRatio == [n |-> <<1>>, d |-> <<1>>]

NoSharpness == [nan |-> FALSE, n |-> 0, d |-> 1]

NoMetrics ==
  [calls |-> 0, colorCorrelation |-> UnitRatio, ssim |-> UnitRatio,
   userSharpness |-> NoSharpness, refSharpness |-> NoSharpness]

CalcHistogramCorrelation ==
  /\ cmpMetrics.calls = 0
  /\ cmpMetrics' = [cmpMetrics EXCEPT !.calls = 1,
       !.colorCorrelation = calculateHistogramCorrelation(cmpUser.data, cmpRef.data,
                                                          cmpUser.width, cmpUser.height)]
  /\ UNCHANGED <<cmpUser, cmpRef, build, request, response, psaVars, cvVars, concVars>>

CalcSSIM ==
  /\ cmpMetrics.calls = 1
  /\ cmpMetrics' = [cmpMetrics EXCEPT !.calls = 2,
       !.ssim = calculateSSIM(cmpUser.data, cmpRef.data, cmpUser.width, cmpUser.height)]
  /\ UNCHANGED <<cmpUser, cmpRef, build, request, response, psaVars, cvVars, concVars>>

CalcSharpness ==
  /\ cmpMetrics.calls = 2
  /\ cmpMetrics' = [cmpMetrics EXCEPT !.calls = 3,
       !.userSharpness = calculateSharpness(cmpUser.data, cmpUser.width, cmpUser.height),
       !.refSharpness = calculateSharpness(cmpRef.data, cmpRef.width, cmpRef.height)]
  /\ UNCHANGED <<cmpUser, cmpRef, build, request, response, psaVars, cvVars, concVars>>

InitCmp ==
  /\ build = "part_002"
  /\ FIRECRAWL_API_KEY = FALSE
  /\ PSA_API_TOKEN = FALSE
  /\ PSA_CACHE = <<>>
  /\ browserInstance = "null"
  /\ request = NoRequest
  /\ response = NoReply
  /\ psaRef = NoLookup
  /\ results = <<>>
  /\ pc = "idle"
  /\ analysed = NotAnalysed
  /\ \E input \in CmpInputs : cmpUser = input[1] /\ cmpRef = input[2]
  /\ cmpMetrics = NoMetrics
  /\ lookups = NoLookups
  /\ launches = NoLaunches

NextCmp == CalcHistogramCorrelation \/ CalcSSIM \/ CalcSharpness

SpecCmp == InitCmp /\ [][NextCmp]_vars

(***************************************************************************)
(* /api/cv: the eight feature detectors.  server.js is the canvas build;   *)
(* part_001 and part_002 share one text.  An uploaded image is a record    *)
(* [kind, pattern, width, height]: kind "image" decodes to width x height  *)
(* pixels that repeat the pattern of palette colours, kind "corrupt" makes *)
(* the decoder throw, kind "missing" is an absent field.                   *)
(*                                                                         *)
(* A score is what score.toFixed(1) prints: [nan, v] with v in tenths.     *)
(* Square roots are kept to two decimals and log2 to 14 binary places;     *)
(* every threshold test on a square root is made exactly on the squares.   *)
(***************************************************************************)
CvMaxDim == 3

CvImage(pattern, width, height) ==
  [kind |-> "image", pattern |-> pattern, width |-> width, height |-> height]

CorruptImage == [kind |-> "corrupt", pattern |-> <<>>, width |-> 0, height |-> 0]

MissingImage == [kind |-> "missing", pattern |-> <<>>, width |-> 0, height |-> 0]

CvPatterns == { <<"A">>, <<"W">>, <<"A", "W">>, <<"A", "W", "W", "D", "B", "E", "W">> }

TexturedImage == CvImage(<<"A", "W", "W", "D", "A", "W", "E", "W", "W", "A", "A">>, 5, 5)

WideFlatImage == CvImage(<<"A">>, 5000, 2)

LongFlatImage == CvImage(<<"W">>, 3334, 3)

CvImages ==
  {CvImage(p, w, h) : p \in CvPatterns, w \in 1..CvMaxDim, h \in 1..CvMaxDim}
  \cup {TexturedImage, WideFlatImage, LongFlatImage, CorruptImage, MissingImage}

(* A faulty variant of Legacy: every build takes the canvas build's        *)
(* unguarded paths.                                                        *)
LegacyEvery(b) == b # ""

Legacy(b) == b = "server.js"

ColourAt(image, i) == Palette[image.pattern[(i % Len(image.pattern)) + 1]]

LumaOf == Eager([c \in DOMAIN Palette |-> Luma(Palette[c][1], Palette[c][2], Palette[c][3])])

(* rgbToGrayscale of the decoded image.                                    *)
CvGray(image) ==
  Eager([i \in 0..(image.width * image.height - 1) |->
           LumaOf[image.pattern[(i % Len(image.pattern)) + 1]]])

Score(nan, tenths) == [nan |-> nan, v |-> tenths]

(* Math.floor(Math.sqrt(n)) for 0 <= n < 2^31.                             *)
RECURSIVE IsqrtSearch(_, _, _)
IsqrtSearch(n, lo, hi) ==
  IF lo = hi THEN lo
  ELSE LET mid == (lo + hi + 1) \div 2
       IN  IF mid * mid <= n THEN IsqrtSearch(n, mid, hi) ELSE IsqrtSearch(n, lo, mid - 1)

Isqrt(n) == IsqrtSearch(n, 0, 46340)

(* Math.sqrt(k) in hundredths, for k up to 3 * 255^2.                      *)
SqrtCenti(k) == Isqrt(k * 10000)

(* Math.log2(n) in units of 2^-14, for an integer n >= 1.                  *)
RECURSIVE FloorLog2(_)
FloorLog2(n) == IF n < 2 THEN 0 ELSE 1 + FloorLog2(n \div 2)

RECURSIVE Log2Frac(_, _)
Log2Frac(m, k) ==
  IF k = 0 THEN 0
  ELSE LET sq == (m * m) \div Pow2(14)
       IN  IF sq >= Pow2(15) THEN Pow2(k - 1) + Log2Frac(sq \div 2, k - 1)
           ELSE Log2Frac(sq, k - 1)

Log2Q14(n) ==
  LET e == FloorLog2(n)
  IN  e * Pow2(14) + Log2Frac((n * Pow2(14)) \div Pow2(e), 14)

(* The pixels the 3 x 3 loops visit, as <<x, y>>; margin 2 for Harris.     *)
InnerPixels(width, height, margin) ==
  (margin..(width - margin - 1)) \X (margin..(height - margin - 1))

SobelX == <<-1, 0, 1, -2, 0, 2, -1, 0, 1>>

SobelY == <<-1, -2, -1, 0, 0, 0, 1, 2, 1>>

(* gradient[y * width + x] squared; the Float32Array is 0 where the loop   *)
(* did not write.                                                          *)
GradientSq(gray, width, height, x, y) ==
  IF x < 1 \/ y < 1 \/ x > width - 2 \/ y > height - 2 THEN 0
  ELSE LET gx == KernelAt(gray, width, x, y, SobelX)
           gy == KernelAt(gray, width, x, y, SobelY)
       IN  gx * gx + gy * gy

(* server.js, non-maximum suppression: the two neighbours chosen by the    *)
(* direction atan2(gy, gx), in sectors of pi / 4 centred on 0, pi / 4,     *)
(* pi / 2 and 3 pi / 4; tan(pi / 8) = sqrt(2) - 1.                         *)
NmsNeighbours(gx, gy, x, y) ==
  LET ax == Abs(gx)
      ay == Abs(gy)
  IN  IF (gx = 0 /\ gy = 0) \/ (ax + ay) * (ax + ay) < 2 * ax * ax
      THEN << <<x - 1, y>>, <<x + 1, y>> >>
      ELSE IF ay > ax /\ (ay - ax) * (ay - ax) > 2 * ax * ax
      THEN << <<x, y - 1>>, <<x, y + 1>> >>
      ELSE IF (gx > 0) = (gy > 0)
      THEN << <<x + 1, y - 1>>, <<x - 1, y + 1>> >>
      ELSE << <<x - 1, y - 1>>, <<x + 1, y + 1>> >>

(* server.js: nms[idx] = mag when mag >= both neighbours, stored in a      *)
(* Uint8ClampedArray (rounded), then nms[i] >= highThreshold = 150.        *)
NmsEdge(gray, width, height, x, y) ==
  LET gx   == KernelAt(gray, width, x, y, SobelX)
      gy   == KernelAt(gray, width, x, y, SobelY)
      mag2 == gx * gx + gy * gy
      nb   == NmsNeighbours(gx, gy, x, y)
  IN  /\ mag2 >= GradientSq(gray, width, height, nb[1][1], nb[1][2])
      /\ mag2 >= GradientSq(gray, width, height, nb[2][1], nb[2][2])
      /\ 4 * mag2 >= 299 * 299

(* 1. cannyEdgeDetection                                                   *)
cannyEdgeDetection(b, image) ==
  LET width  == image.width
      height == image.height
      Detect(gray) ==
        LET edges  == {p \in InnerPixels(width, height, 1) :
                         IF Legacy(b) THEN NmsEdge(gray, width, height, p[1], p[2])
                         ELSE GradientSq(gray, width, height, p[1], p[2]) >= 150 * 150}
            edgePixels == Cardinality(edges)
        IN  [name |-> "Canny Edge Detection", edgePixels |-> edgePixels,
             score |-> Score(FALSE, ToFixedRat(Min(100 * edgePixels, 10 * width * height),
                                               width * height, 10))]
  IN  Detect(CvGray(image))

(* 2. labColorDeltaE.  The stride between samples; server.js takes the     *)
(* floor alone, which is 0 for an image of fewer than 10000 pixels.        *)
LabStep(b, image) ==
  LET floorStep == Isqrt(image.width * image.height) \div 100
  IN  IF Legacy(b) THEN floorStep ELSE Max(1, floorStep)

(* With a stride of 0 the sampling loop `for (y = 0; y < height; y += 0)`  *)
(* never ends.                                                             *)
LabStalls(b, image) == LabStep(b, image) = 0

labColorDeltaE(b, image) ==
  LET step    == LabStep(b, image)
      nx      == (image.width + step - 1) \div step
      ny      == (image.height + step - 1) \div step
      count   == nx * ny
      sample  == [k \in 0..(count - 1) |->
                    ColourAt(image, ((k \div nx) * step) * image.width + (k % nx) * step)]
      delta   == Eager([i \in 1..(count - 1) |->
                    LET dr == sample[i][1] - sample[i - 1][1]
                        dg == sample[i][2] - sample[i - 1][2]
                        db == sample[i][3] - sample[i - 1][3]
                    IN  SqrtCenti(dr * dr + dg * dg + db * db)])
      totalDelta == SumRange(delta, 1, count - 1)
      unguarded  == Legacy(b) /\ count = 1
  IN  [name |-> "LAB Color Delta-E", samples |-> count,
       score |-> IF unguarded THEN Score(TRUE, 0)
                 ELSE IF count = 1 THEN Score(FALSE, 100)
                 ELSE Score(FALSE, ToFixedRat(Max(0, 50000 * (count - 1) - totalDelta),
                                              5000 * (count - 1), 10))]

(* 3. localBinaryPatterns.  The neighbours clockwise from the top left.    *)
LbpOffsets ==
  << <<-1, -1>>, <<0, -1>>, <<1, -1>>, <<1, 0>>, <<1, 1>>, <<0, 1>>, <<-1, 1>>, <<-1, 0>> >>

(* The number of places where the 8-bit pattern of pixel (x, y), read as a *)
(* ring, changes between 0 and 1.                                          *)
LbpTransitions(gray, width, x, y) ==
  LET center == gray[y * width + x]
      bit    == [i \in 0..7 |->
                   gray[(y + LbpOffsets[i + 1][2]) * width + (x + LbpOffsets[i + 1][1])]
                     >= center]
  IN  Cardinality({i \in 0..7 : bit[i] # bit[(i + 1) % 8]})

(* A faulty variant of LbpUniform: a pattern without any transition is not *)
(* counted.                                                                *)
LbpUniformEdgesOnly(gray, width, x, y) ==
  LbpTransitions(gray, width, x, y) \in 1..2

LbpUniform(gray, width, x, y) == LbpTransitions(gray, width, x, y) <= 2

(* uniformity is what toFixed(2) prints, in hundredths of a percent.       *)
localBinaryPatterns(b, image) ==
  LET width  == image.width
      height == image.height
      Detect(gray) ==
        LET totalPatterns   == Cardinality(InnerPixels(width, height, 1))
            uniformPatterns == Cardinality({p \in InnerPixels(width, height, 1) :
                                              LbpUniform(gray, width, p[1], p[2])})
        IN  [name |-> "Local Binary Patterns", uniformPatterns |-> uniformPatterns,
             totalPatterns |-> totalPatterns,
             uniformity |-> IF totalPatterns = 0
                            THEN (IF Legacy(b) THEN Score(TRUE, 0) ELSE Score(FALSE, 0))
                            ELSE Score(FALSE, ToFixedRat(100 * uniformPatterns,
                                                         totalPatterns, 100)),
             score |-> IF totalPatterns = 0
                       THEN (IF Legacy(b) THEN Score(TRUE, 0) ELSE Score(FALSE, 0))
                       ELSE Score(FALSE, ToFixedRat(uniformPatterns, totalPatterns, 100))]
  IN  Detect(CvGray(image))

(* 4. histogramOfGradients.  The bin of atan2(gy, gx) among nine of 40     *)
(* degrees starting at -pi: the number of bin edges at or below the angle. *)
(* The edges are given as (cos, sin) * 10^6.                               *)
HogEdges ==
  << <<-766044, -642788>>, <<-173648, -984808>>, <<500000, -866025>>, <<939693, -342020>>,
     <<939693, 342020>>, <<500000, 866025>>, <<-173648, 984808>>, <<-766044, 642788>> >>

HogBin(gx, gy) ==
  IF gy = 0 /\ gx < 0 THEN 0
  ELSE Cardinality({j \in 1..8 :
         IF gy >= 0
         THEN j <= 4 \/ HogEdges[j][1] * gy - HogEdges[j][2] * gx >= 0
         ELSE j <= 4 /\ HogEdges[j][1] * gy - HogEdges[j][2] * gx >= 0})

histogramOfGradients(b, image) ==
  LET width  == image.width
      height == image.height
      Detect(gray) ==
        LET count  == InteriorCount(width, height)
            gxOf(j) == gray[InteriorY(width, j) * width + InteriorX(width, j) + 1]
                         - gray[InteriorY(width, j) * width + InteriorX(width, j) - 1]
            gyOf(j) == gray[(InteriorY(width, j) + 1) * width + InteriorX(width, j)]
                         - gray[(InteriorY(width, j) - 1) * width + InteriorX(width, j)]
            binOf     == Eager([j \in 0..(count - 1) |-> HogBin(gxOf(j), gyOf(j))])
            magnitude == Eager([j \in 0..(count - 1) |->
                                  SqrtCenti(gxOf(j) * gxOf(j) + gyOf(j) * gyOf(j))])
            histogram == Eager([k \in 0..8 |->
                           SumRange([j \in 0..(count - 1) |->
                                       IF binOf[j] = k THEN magnitude[j] ELSE 0], 0, count - 1)])
            maxBin   == CHOOSE m \in {histogram[k] : k \in 0..8} : \A k \in 0..8 : histogram[k] <= m
            minBin   == CHOOSE m \in {histogram[k] : k \in 0..8} : \A k \in 0..8 : histogram[k] >= m
            variance == maxBin - minBin
        IN  [name |-> "Histogram of Gradients", histogram |-> histogram,
             score |-> Score(FALSE, ToFixedRat(Min(variance, 1000000), 100000, 10))]
  IN  Detect(CvGray(image))

(* A faulty variant of entropyAnalysis: the probabilities are taken over    *)
(* one more than the number of pixels.                                     *)
entropyAnalysisOffByOne(b, image) ==
  LET Detect(gray) ==
        LET pixels == image.width * image.height
            n      == pixels + 1
            levels == {gray[i] : i \in 0..(pixels - 1)}
            countOf(g) == Cardinality({i \in 0..(pixels - 1) : gray[i] = g})
            RECURSIVE Weighted(_)
            Weighted(S) ==
              IF S = {} THEN 0
              ELSE LET g == CHOOSE v \in S : TRUE
                   IN  countOf(g) * (Log2Q14(n) - Log2Q14(countOf(g))) + Weighted(S \ {g})
            entropyQ14 == Weighted(levels)
        IN  [name |-> "Entropy Analysis", levels |-> Cardinality(levels),
             entropy |-> ToFixedRat(entropyQ14, n * Pow2(14), 100),
             score |-> Score(FALSE, ToFixedRat(25 * entropyQ14, n * Pow2(15), 1))]
  IN  Detect(CvGray(image))

(* 5. entropyAnalysis: -sum p log2 p over the grey levels present, with    *)
(* p = c / n, i.e. sum c (log2 n - log2 c) / n; entropy is in hundredths.  *)
entropyAnalysis(b, image) ==
  LET Detect(gray) ==
        LET n      == image.width * image.height
            levels == {gray[i] : i \in 0..(n - 1)}
            countOf(g) == Cardinality({i \in 0..(n - 1) : gray[i] = g})
            RECURSIVE Weighted(_)
            Weighted(S) ==
              IF S = {} THEN 0
              ELSE LET g == CHOOSE v \in S : TRUE
                   IN  countOf(g) * (Log2Q14(n) - Log2Q14(countOf(g))) + Weighted(S \ {g})
            entropyQ14 == Weighted(levels)
        IN  [name |-> "Entropy Analysis", levels |-> Cardinality(levels),
             entropy |-> ToFixedRat(entropyQ14, n * Pow2(14), 100),
             score |-> Score(FALSE, ToFixedRat(25 * entropyQ14, n * Pow2(15), 1))]
  IN  Detect(CvGray(image))

(* 6. laplacianSharpness.  server.js divides by (width - 2) * (height - 2) *)
(* whatever its sign; the later builds divide by the count of pixels       *)
(* visited when it is positive.  variance is what toFixed(0) prints.       *)
CvLaplacian == <<0, -1, 0, -1, 4, -1, 0, -1, 0>>

laplacianSharpness(b, image) ==
  LET width  == image.width
      height == image.height
      Detect(gray) ==
        LET count  == InteriorCount(width, height)
            sq     == Eager([j \in 0..(count - 1) |->
                         LET v == KernelAt(gray, width, InteriorX(width, j), InteriorY(width, j),
                                           CvLaplacian)
                         IN  v * v])
            total   == SumRange(sq, 0, count - 1)
            divisor == IF Legacy(b) THEN (width - 2) * (height - 2) ELSE count
        IN  [name |-> "Laplacian Sharpness", count |-> count,
             variance |-> IF divisor = 0
                          THEN (IF Legacy(b) THEN Score(TRUE, 0) ELSE Score(FALSE, 0))
                          ELSE IF count = 0 THEN Score(FALSE, 0)
                          ELSE Score(FALSE, ToFixedRat(total, count, 1)),
             score |-> IF divisor = 0
                       THEN (IF Legacy(b) THEN Score(TRUE, 0) ELSE Score(FALSE, 0))
                       ELSE IF count = 0 THEN Score(FALSE, 0)
                       ELSE Score(FALSE, ToFixedRat(Min(total, 1000 * count), 10 * count, 1))]
  IN  Detect(CvGray(image))

(* A faulty variant of HarrisCorner: det is Ixx * Iyy, the product of the  *)
(* cross terms is not subtracted.                                          *)
HarrisCornerNoCross(gray, width, x, y) ==
  LET a == gray[y * width + (x + 1)] - gray[y * width + (x - 1)]
      c == gray[(y + 1) * width + x] - gray[(y - 1) * width + x]
      minus(z) == ZMul(ZFromInt(-1), z)
      det16    == ZMul(ZFromInt(a * a), ZFromInt(c * c))
      trace4   == ZFromInt(a * a + c * c)
      response400 == ZAdd(ZMul(ZFromInt(25), det16), minus(ZMul(trace4, trace4)))
  IN  ZAdd(response400, ZFromInt(-4000000)).s = 1

(* 7. harrisCornerDetection.  With a = 2 Ix and b = 2 Iy,                  *)
(* 400 * response = 25 (a^2 b^2 - (a b)^2) - (a^2 + b^2)^2.                *)
HarrisCorner(gray, width, x, y) ==
  LET a == gray[y * width + (x + 1)] - gray[y * width + (x - 1)]
      c == gray[(y + 1) * width + x] - gray[(y - 1) * width + x]
      minus(z) == ZMul(ZFromInt(-1), z)
      det16    == ZAdd(ZMul(ZFromInt(a * a), ZFromInt(c * c)),
                       minus(ZMul(ZFromInt(a * c), ZFromInt(a * c))))
      trace4   == ZFromInt(a * a + c * c)
      response400 == ZAdd(ZMul(ZFromInt(25), det16), minus(ZMul(trace4, trace4)))
  IN  ZAdd(response400, ZFromInt(-4000000)).s = 1

harrisCornerDetection(b, image) ==
  LET width  == image.width
      height == image.height
      Detect(gray) ==
        LET corners == Cardinality({p \in InnerPixels(width, height, 2) :
                                      HarrisCorner(gray, width, p[1], p[2])})
        IN  [name |-> "Harris Corner Detection", corners |-> corners,
             score |-> Score(FALSE, ToFixedRat(Min(10000 * corners, 10 * width * height),
                                               width * height, 10))]
  IN  Detect(CvGray(image))

(* 8. houghLineTransform: an edge pixel has gradient magnitude > 50.       *)
houghLineTransform(b, image) ==
  LET width  == image.width
      height == image.height
      Detect(gray) ==
        LET edgeCount == Cardinality({p \in InnerPixels(width, height, 1) :
                           LET gx == gray[p[2] * width + (p[1] + 1)] - gray[p[2] * width + (p[1] - 1)]
                               gy == gray[(p[2] + 1) * width + p[1]] - gray[(p[2] - 1) * width + p[1]]
                           IN  gx * gx + gy * gy > 50 * 50})
            lines == edgeCount \div 100
        IN  [name |-> "Hough Line Transform", edgeCount |-> edgeCount, lines |-> lines,
             score |-> Score(FALSE, 10 * Min(10, lines))]
  IN  Detect(CvGray(image))

(***************************************************************************)
(* POST /api/cv, one step per awaited detector.  pc is the handler's       *)
(* position: "idle" when no request is in progress, the name of the        *)
(* detector about to run, "respond" before res.json, and "stalled" inside  *)
(* a loop that never ends.  results is the handler's local list.           *)
(***************************************************************************)
CvBuilds == {"server.js", "part_001", "part_002"}

CvTiers == {"pro", "expert", "enterprise"}

TierInputs == CvTiers \cup {"", "basic"}

(* The tiers a request with this image is sent with: every tier for the    *)
(* small images, one valid and one invalid tier for the two long ones.     *)
TiersFor(image) ==
  IF image \in {WideFlatImage, LongFlatImage} THEN {"pro", "basic"} ELSE TierInputs

ToUpperCase == [pro |-> "PRO", expert |-> "EXPERT", enterprise |-> "ENTERPRISE"]

CvRequest(image, tier) == [image |-> image, tier |-> tier]

CvReply(status, error, tier, list) ==
  [status |-> status, success |-> status = 200, error |-> error, tier |-> tier,
   algorithmsRun |-> Len(list), results |-> list]

NoCvReply == CvReply(0, "", "", <<>>)

(***************************************************************************)
(* History of the analyses, kept for two watched images: the results of    *)
(* the first 200 answer for one of them, whether a request with another    *)
(* image has been received since, and whether the image has been answered  *)
(* a second time.  The history is dropped when the next request arrives    *)
(* after a second answer.  No handler reads it.                            *)
(***************************************************************************)
Watched == {TexturedImage, LongFlatImage}

Received(h, image) ==
  IF h.runs = 2 THEN NotAnalysed
  ELSE IF h.runs = 1 /\ image # h.image THEN [h EXCEPT !.between = TRUE]
  ELSE h

Answered(h, image, list) ==
  IF image \notin Watched THEN h
  ELSE IF h.runs = 0 THEN [image |-> image, runs |-> 1, between |-> FALSE, first |-> list]
  ELSE IF h.image = image /\ h.runs = 1 THEN [h EXCEPT !.runs = 2]
  ELSE h

(* A faulty variant of CvReceive: the list outlives the request, and a     *)
(* request that repeats the image just answered goes on with it.           *)
CvReceiveShared(image, tier) ==
  /\ pc = "idle"
  /\ request' = CvRequest(image, tier)
  /\ results' = IF response.status = 200 /\ request.image = image
              THEN response.results ELSE <<>>
  /\ analysed' = Received(analysed, image)
  /\ IF image.kind = "missing"
     THEN /\ response' = CvReply(400, "No image provided", "", <<>>)
          /\ pc' = "idle"
     ELSE IF tier \notin CvTiers
     THEN /\ response' = CvReply(400, "Invalid tier. Must be pro, expert, or enterprise",
                                 "", <<>>)
          /\ pc' = "idle"
     ELSE /\ response' = NoCvReply
          /\ pc' = "canny"
  /\ UNCHANGED <<build, psaVars, cmpVars, concVars>>

(* A faulty variant of CvReceive: the tier is not validated.               *)
CvReceiveAnyTier(image, tier) ==
  /\ pc = "idle"
  /\ request' = CvRequest(image, tier)
  /\ results' = <<>>
  /\ analysed' = Received(analysed, image)
  /\ IF image.kind = "missing"
     THEN /\ response' = CvReply(400, "No image provided", "", <<>>)
          /\ pc' = "idle"
     ELSE /\ response' = NoCvReply
          /\ pc' = "canny"
  /\ UNCHANGED <<build, psaVars, cmpVars, concVars>>

(* The two validations, then the detectors start.                          *)
CvReceive(image, tier) ==
  /\ pc = "idle"
  /\ request' = CvRequest(image, tier)
  /\ results' = <<>>
  /\ analysed' = Received(analysed, image)
  /\ IF image.kind = "missing"
     THEN /\ response' = CvReply(400, "No image provided", "", <<>>)
          /\ pc' = "idle"
     ELSE IF tier \notin CvTiers
     THEN /\ response' = CvReply(400, "Invalid tier. Must be pro, expert, or enterprise",
                                 "", <<>>)
          /\ pc' = "idle"
     ELSE /\ response' = NoCvReply
          /\ pc' = "canny"
  /\ UNCHANGED <<build, psaVars, cmpVars, concVars>>

(* A faulty variant of CvPush: a detector that throws is skipped and the   *)
(* handler goes on with the next one.                                      *)
CvPushSkip(next, result) ==
  /\ results' = IF request.image.kind # "image" THEN results ELSE Append(results, result)
  /\ pc' = next
  /\ UNCHANGED <<build, request, response, analysed, psaVars, cmpVars, concVars>>

(* unshift in place of push.                                               *)
CvPushFront(next, result) ==
  /\ IF request.image.kind # "image"
     THEN /\ response' = CvReply(500, "CV analysis failed", "", <<>>)
          /\ results' = <<>>
          /\ pc' = "idle"
     ELSE /\ results' = <<result>> \o results
          /\ pc' = next
          /\ UNCHANGED response
  /\ UNCHANGED <<build, request, analysed, psaVars, cmpVars, concVars>>

(* results.push(await detector(image)): the detector decodes the image     *)
(* first, and a throw goes to the handler's catch.                         *)
CvPush(next, result) ==
  /\ IF request.image.kind # "image"
     THEN /\ response' = CvReply(500, "CV analysis failed", "", <<>>)
          /\ results' = <<>>
          /\ pc' = "idle"
     ELSE /\ results' = Append(results, result)
          /\ pc' = next
          /\ UNCHANGED response
  /\ UNCHANGED <<build, request, analysed, psaVars, cmpVars, concVars>>

CvCanny ==
  /\ pc = "canny"
  /\ CvPush("lab", cannyEdgeDetection(build, request.image))

CvLab ==
  /\ pc = "lab"
  /\ IF request.image.kind = "image" /\ LabStalls(build, request.image)
     THEN /\ pc' = "stalled"
          /\ UNCHANGED <<build, request, response, results, analysed, psaVars, cmpVars, concVars>>
     ELSE CvPush("lbp", labColorDeltaE(build, request.image))

CvLbp ==
  /\ pc = "lbp"
  /\ CvPush("hog", localBinaryPatterns(build, request.image))

CvHog ==
  /\ pc = "hog"
  /\ CvPush("entropy", histogramOfGradients(build, request.image))

CvEntropy ==
  /\ pc = "entropy"
  /\ CvPush("laplacian", entropyAnalysis(build, request.image))

CvLaplacianStep ==
  /\ pc = "laplacian"
  /\ CvPush("harris", laplacianSharpness(build, request.image))

CvHarris ==
  /\ pc = "harris"
  /\ CvPush("hough", harrisCornerDetection(build, request.image))

CvHough ==
  /\ pc = "hough"
  /\ CvPush("respond", houghLineTransform(build, request.image))

CvRespond ==
  /\ pc = "respond"
  /\ response' = CvReply(200, "", ToUpperCase[request.tier], results)
  /\ results' = <<>>
  /\ pc' = "idle"
  /\ analysed' = Answered(analysed, request.image, results)
  /\ UNCHANGED <<build, request, psaVars, cmpVars, concVars>>

CvRun ==
  \/ CvCanny
  \/ CvLab
  \/ CvLbp
  \/ CvHog
  \/ CvEntropy
  \/ CvLaplacianStep
  \/ CvHarris
  \/ CvHough
  \/ CvRespond

InitCV ==
  /\ build \in CvBuilds
  /\ FIRECRAWL_API_KEY = FALSE
  /\ PSA_API_TOKEN = FALSE
  /\ PSA_CACHE = <<>>
  /\ browserInstance = "null"
  /\ request = CvRequest(MissingImage, "")
  /\ response = NoCvReply
  /\ psaRef = NoLookup
  /\ results = <<>>
  /\ pc = "idle"
  /\ analysed = NotAnalysed
  /\ cmpUser = <<>>
  /\ cmpRef = <<>>
  /\ cmpMetrics = <<>>
  /\ lookups = NoLookups
  /\ launches = NoLaunches

NextCV ==
  \/ \E image \in CvImages : \E tier \in TiersFor(image) : CvReceive(image, tier)
  \/ CvRun

(* The event loop resumes an awaited detector whenever it can continue.    *)
SpecCV == InitCV /\ [][NextCV]_vars /\ WF_vars(CvRun)

(***************************************************************************)
(* Reference lookups of concurrent requests.  A lookup runs from one await *)
(* to the next; between two awaits of one request the steps of another may *)
(* run.  "lookup" is a call of fetchPSAReference (from /api/psa-compare,   *)
(* /api/psa-scrape or /api/psa-verify), "psa-reference" the route that     *)
(* tries the official API first.                                           *)
(***************************************************************************)
LookupRoutes == {"lookup", "psa-reference"}

MaxLaunches == 3

(* The Browser objects puppeteer.launch returns, by the number of the call.*)
Browsers ==
  <<"launched", "launched by the second call", "launched by the third call",
    "launched by the fourth call">>

Done(route, certNumber, browser, result, stored) ==
  Lookup("done", route, certNumber, browser, 0, result, stored)

(* fetchPSAReference up to its first await: the cache check, then the key  *)
(* check of part_002 or getBrowser of part_001, which returns the instance *)
(* if there is one and calls puppeteer.launch if not.                      *)
ScrapeStart(b, route, certNumber, cache, apiKey, browser, invoked) ==
  IF certNumber \in DOMAIN cache
  THEN Done(route, certNumber, "null", cache[certNumber], FALSE)
  ELSE IF b = "part_001"
  THEN IF browser # "null"
       THEN Lookup("scrape", route, certNumber, browser, 0, NoLookup, FALSE)
       ELSE Lookup("launch", route, certNumber, "null", invoked + 1, NoLookup, FALSE)
  ELSE IF ~apiKey
  THEN Done(route, certNumber, "null",
            LookupError(certNumber, "firecrawl_not_configured"), FALSE)
  ELSE Lookup("scrape", route, certNumber, "null", 0, NoLookup, FALSE)

(* /api/psa-reference of part_002 up to its first await.                   *)
ReferenceStart(b, certNumber, cache, apiKey, token, browser, invoked) ==
  IF b = "part_001"
  THEN ScrapeStart(b, "psa-reference", certNumber, cache, apiKey, browser, invoked)
  ELSE IF certNumber \in DOMAIN cache
  THEN Done("psa-reference", certNumber, "null", cache[certNumber], FALSE)
  ELSE IF certNumber \in KNOWN_PSA_CERTS
  THEN Done("psa-reference", certNumber, "null", NoLookup, FALSE)
  ELSE IF token
  THEN Lookup("official", "psa-reference", certNumber, "null", 0, NoLookup, FALSE)
  ELSE ScrapeStart(b, "psa-reference", certNumber, cache, apiKey, browser, invoked)

LookupBegin(slot, route, certNumber) ==
  /\ lookups[slot].pc \in {"idle", "done"}
  /\ LET Begin(start) ==
           /\ start.pc = "launch" => launches.invoked < MaxLaunches
           /\ lookups' = [lookups EXCEPT ![slot] = start]
           /\ launches' = IF start.pc = "launch"
                          THEN [launches EXCEPT !.invoked = @ + 1]
                          ELSE launches
     IN  Begin(IF route = "psa-reference"
               THEN ReferenceStart(build, certNumber, PSA_CACHE, FIRECRAWL_API_KEY,
                                   PSA_API_TOKEN, browserInstance, launches.invoked)
               ELSE ScrapeStart(build, route, certNumber, PSA_CACHE, FIRECRAWL_API_KEY,
                                browserInstance, launches.invoked))
  /\ UNCHANGED <<build, request, response, psaVars, cvVars, cmpVars>>

(* The official API has answered: a valid answer is stored and sent, any   *)
(* other falls through to fetchPSAReference.                               *)
OfficialEnd(slot, official) ==
  /\ lookups[slot].pc = "official"
  /\ LET certNumber == lookups[slot].certNumber
     IN  IF official = "valid"
         THEN /\ PSA_CACHE' = CacheSet(PSA_CACHE, certNumber, OfficialResult(certNumber))
              /\ lookups' = [lookups EXCEPT ![slot] =
                               Done("psa-reference", certNumber, "null",
                                    OfficialResult(certNumber), TRUE)]
         ELSE /\ PSA_CACHE' = PSA_CACHE
              /\ lookups' = [lookups EXCEPT ![slot] =
                               ScrapeStart(build, "psa-reference", certNumber, PSA_CACHE,
                                           FIRECRAWL_API_KEY, browserInstance,
                                           launches.invoked)]
  /\ UNCHANGED <<build, FIRECRAWL_API_KEY, PSA_API_TOKEN, browserInstance, psaRef,
                 request, response, launches, cvVars, cmpVars>>

(* puppeteer.launch has settled: the new Browser is assigned to            *)
(* browserInstance and returned, or the rejection is rethrown and caught   *)
(* by the scraper.                                                         *)
LaunchEnd(slot, launched) ==
  /\ lookups[slot].pc = "launch"
  /\ LET certNumber == lookups[slot].certNumber
         route      == lookups[slot].route
         instance   == Browsers[lookups[slot].launch]
     IN  IF launched
         THEN /\ browserInstance' = instance
              /\ lookups' = [lookups EXCEPT ![slot] =
                               Lookup("scrape", route, certNumber, instance, 0, NoLookup,
                                      FALSE)]
              /\ launches' = launches
         ELSE /\ browserInstance' = browserInstance
              /\ lookups' = [lookups EXCEPT ![slot] =
                               Done(route, certNumber, "null",
                                    LookupError(certNumber,
                                                "Failed to launch the browser process!"),
                                    FALSE)]
              /\ launches' = [launches EXCEPT !.failed = @ + 1]
  /\ UNCHANGED <<build, FIRECRAWL_API_KEY, PSA_API_TOKEN, PSA_CACHE, psaRef,
                 request, response, cvVars, cmpVars>>

(* The scrape has settled: a page is filtered into a result, which is      *)
(* stored under the certificate whatever the cache holds by now; a failure *)
(* is returned as an error object.                                         *)
ScrapeOutcomes(b, certNumber) ==
  IF b = "part_001"
  THEN {o \in PuppeteerOutcomes(certNumber) : o.kind # "launch"}
  ELSE FirecrawlOutcomes(certNumber)

ScrapeEnd(slot, outcome) ==
  /\ lookups[slot].pc = "scrape"
  /\ outcome \in ScrapeOutcomes(build, lookups[slot].certNumber)
  /\ LET certNumber == lookups[slot].certNumber
         End(result) ==
           /\ PSA_CACHE' = IF result.scraped THEN CacheSet(PSA_CACHE, certNumber, result)
                           ELSE PSA_CACHE
           /\ lookups' = [lookups EXCEPT ![slot] =
                            Done(lookups[slot].route, certNumber, lookups[slot].browser,
                                 result, result.scraped)]
     IN  End(fetchPSAReference(build, certNumber, <<>>, TRUE, lookups[slot].browser,
                               outcome).result)
  /\ UNCHANGED <<build, FIRECRAWL_API_KEY, PSA_API_TOKEN, browserInstance, psaRef,
                 request, response, launches, cvVars, cmpVars>>

InitConc ==
  /\ build \in {"part_001", "part_002"}
  /\ FIRECRAWL_API_KEY \in (IF build = "part_002" THEN BOOLEAN ELSE {FALSE})
  /\ PSA_API_TOKEN \in (IF build = "part_002" THEN BOOLEAN ELSE {FALSE})
  /\ PSA_CACHE = <<>>
  /\ browserInstance = "null"
  /\ request = NoRequest
  /\ response = NoReply
  /\ psaRef = NoLookup
  /\ results = <<>>
  /\ pc = "idle"
  /\ analysed = NotAnalysed
  /\ cmpUser = <<>>
  /\ cmpRef = <<>>
  /\ cmpMetrics = <<>>
  /\ lookups = NoLookups
  /\ launches = NoLaunches

NextConc ==
  \/ \E slot \in Slots, route \in LookupRoutes, certNumber \in CertNumbers :
       LookupBegin(slot, route, certNumber)
  \/ \E slot \in Slots, official \in OfficialOutcomes : OfficialEnd(slot, official)
  \/ \E slot \in Slots, launched \in BOOLEAN : LaunchEnd(slot, launched)
  \/ \E slot \in Slots, outcome \in AllOutcomes : ScrapeEnd(slot, outcome)

SpecConc == InitConc /\ [][NextConc]_vars

(***************************************************************************)
(* Properties of the PSA handlers, checked under Spec.  They read the last *)
(* request, the lookup it made and the response it was given.              *)
(***************************************************************************)
CompareAnswered == request.handler = "psa-compare" /\ psaRef.called

VerifyAnswered == request.handler = "psa-verify" /\ psaRef.called

FirstReferences == Slice(psaRef.referenceImages, CompareMaxRefs)

(* The lookup gave /api/psa-compare nothing to compare with: an error      *)
(* object, no referenceImages, or first references that all fail to load.  *)
NothingToCompare ==
  /\ CompareAnswered
  /\ \/ psaRef.error # ""
     \/ psaRef.referenceImages = <<>>
     \/ \A i \in 1..Len(FirstReferences) : FirstReferences[i].img = Null

FixedSuspicious ==
  /\ response.authenticity.present
  /\ response.authenticity.score = 50
  /\ response.authenticity.verdict = "SUSPICIOUS"
  /\ Len(response.authenticity.warnings) = 1

RECURSIVE SumOf(_)
SumOf(values) == IF values = <<>> THEN 0 ELSE Head(values) + SumOf(Tail(values))

ListedColor == [i \in 1..Len(response.comparison) |-> response.comparison[i].colorCorrelation]

ListedSsim == [i \in 1..Len(response.comparison) |-> response.comparison[i].ssim]

ListedSharpDiff ==
  [i \in 1..Len(response.comparison) |-> response.comparison[i].sharpnessDifference.v]

CompareScored ==
  /\ request.handler = "psa-compare"
  /\ response.authenticity.present
  /\ Len(response.comparison) > 0

(* The three averages against their thresholds, in exact arithmetic on the *)
(* values the response lists (colorCorrelation and ssim in units of        *)
(* 0.0001, sharpnessDifference in units of 0.01).                          *)
ColorBelow ==
  SumOf(ListedColor) < 7000 * Len(response.comparison)

SsimBelow ==
  SumOf(ListedSsim) < 6000 * Len(response.comparison)

SharpAbove ==
  SumOf(ListedSharpDiff) > 10000 * Len(response.comparison)

(* C2: with at least one comparison result, the score of /api/psa-compare  *)
(* is 100 minus 25 if the average colorCorrelation is strictly below 0.70, *)
(* minus 25 if the average ssim is strictly below 0.60, minus 20 if the    *)
(* average sharpnessDifference is strictly above 100, an average exactly   *)
(* at a threshold causing no deduction; the warnings are one per           *)
(* deduction, in the order colour, structure, sharpness.                   *)
C2_ScoreFromAverages ==
  CompareScored =>
    /\ response.authenticity.score =
         100 - (IF ColorBelow THEN 25 ELSE 0) - (IF SsimBelow THEN 25 ELSE 0)
             - (IF SharpAbove THEN 20 ELSE 0)
    /\ response.authenticity.warnings =
         (IF ColorBelow THEN <<"Low color correlation">> ELSE <<>>)
         \o (IF SsimBelow THEN <<"Low structural similarity">> ELSE <<>>)
         \o (IF SharpAbove THEN <<"Significant sharpness difference">> ELSE <<>>)

(* C2's failing case: three results whose colorCorrelation values average  *)
(* exactly 0.70, and a colour deduction all the same.                      *)
C2_Witness ==
  /\ CompareScored
  /\ Len(response.comparison) = 3
  /\ SumOf(ListedColor) = 21000
  /\ response.authenticity.score = 75
  /\ response.authenticity.warnings = <<"Low color correlation">>

(* C3: in every response of /api/psa-compare and /api/psa-verify that has  *)
(* an authenticity object, the verdict is LIKELY_FAKE for a score below    *)
(* 50, SUSPICIOUS for 50 <= score < 75 and LIKELY_AUTHENTIC for a score of *)
(* 75 or more.                                                             *)
C3_VerdictFromScore ==
  response.authenticity.present =>
    response.authenticity.verdict =
      (IF response.authenticity.score < 50 THEN "LIKELY_FAKE"
       ELSE IF response.authenticity.score < 75 THEN "SUSPICIOUS"
       ELSE "LIKELY_AUTHENTIC")

(* C3's case: /api/psa-verify at the boundary score 75.                    *)
C3_Witness ==
  /\ request.handler = "psa-verify"
  /\ response.authenticity.present
  /\ response.authenticity.score = 75
  /\ response.authenticity.verdict = "LIKELY_AUTHENTIC"

(* C4: in every response of /api/psa-compare and /api/psa-verify that has  *)
(* an authenticity object, the score is an integer from 0 to 100.          *)
C4_ScoreInRange ==
  response.authenticity.present => response.authenticity.score \in 0..100

(* C4's case: all three deductions taken on several comparison results.    *)
C4_Witness ==
  /\ response.authenticity.present
  /\ Len(response.comparison) > 1
  /\ Len(response.authenticity.warnings) = 3
  /\ response.authenticity.score = 30

VerifyNothingCompared ==
  /\ VerifyAnswered
  /\ response.authenticity.present
  /\ response.comparison = <<>>

(* C5: when /api/psa-verify has zero comparisons (no user images, or no    *)
(* reference image downloaded), the score is 50, the verdict SUSPICIOUS    *)
(* and there is a warning that no reference images were available.         *)
C5_VerifyZeroComparisons ==
  VerifyNothingCompared =>
    /\ response.authenticity.score = 50
    /\ response.authenticity.verdict = "SUSPICIOUS"
    /\ Len(response.authenticity.warnings) = 1

(* C5's failing case: user images were sent, the page listed references,   *)
(* none of the first five downloaded, and the card is found authentic.     *)
C5_Witness ==
  /\ VerifyNothingCompared
  /\ request.userImages # <<>>
  /\ psaRef.allImages # <<>>
  /\ response.referenceImages = <<>>
  /\ response.authenticity.score = 100
  /\ response.authenticity.verdict = "LIKELY_AUTHENTIC"
  /\ response.authenticity.warnings = <<>>

(* Every comparison of the response was made with a reference whose        *)
(* standardized buffer equals the user's, byte for byte.                   *)
AllReferencesIdentical ==
  /\ CompareScored
  /\ \A i \in 1..Len(response.comparison) :
       StandardBuffer[response.comparison[i].referenceUrl.img]
         = StandardBuffer[request.userImages[1]]

(* C8: when the user's standardized buffer is byte-identical to every      *)
(* reference it is compared with, /api/psa-compare lists                   *)
(* sharpnessDifference 0.00 for every comparison, takes no deduction,      *)
(* gives no warning, and returns score 100, LIKELY_AUTHENTIC.              *)
C8_IdenticalScoresHundred ==
  AllReferencesIdentical =>
    /\ \A i \in 1..Len(response.comparison) :
         response.comparison[i].sharpnessDifference = [nan |-> FALSE, v |-> 0]
    /\ response.authenticity.score = 100
    /\ response.authenticity.warnings = <<>>
    /\ response.authenticity.verdict = "LIKELY_AUTHENTIC"

(* C8's case: three identical references, served from three URLs.          *)
C8_Witness ==
  /\ AllReferencesIdentical
  /\ Len(response.comparison) = 3
  /\ response.authenticity.score = 100

Scored == response.authenticity.present

(* C15 as stated: the number of comparison results averaged for a verdict  *)
(* never exceeds 3, in /api/psa-compare and in /api/psa-verify.            *)
C15_AsStated ==
  (CompareAnswered \/ VerifyAnswered) /\ Scored => Len(response.comparison) <= 3

(* C15, amended: /api/psa-compare averages at most 3 comparison results,   *)
(* one for each of the first 3 reference images that loads;                *)
(* /api/psa-verify downloads at most the first 5 images of the page and    *)
(* averages one result for each of the first 3 user images against each    *)
(* downloaded reference, at most 15.                                       *)
C15_ComparisonsBounded ==
  /\ CompareAnswered /\ Scored =>
       /\ Len(response.comparison) <= 3
       /\ Len(response.comparison) =
            Cardinality({i \in 1..Min(3, Len(psaRef.referenceImages)) :
                           psaRef.referenceImages[i].img # Null})
  /\ VerifyAnswered /\ Scored =>
       /\ Len(response.referenceImages) <= 5
       /\ Len(response.referenceImages) =
            Cardinality({i \in 1..Min(5, Len(psaRef.allImages)) :
                           psaRef.allImages[i].img # Null})
       /\ Len(response.comparison) =
            Min(3, Len(request.userImages)) * Len(response.referenceImages)
       /\ Len(response.comparison) <= 15

(* C15's case: /api/psa-verify was sent four user images and a page of    *)
(* six images; four of the first five downloaded, and the verdict averages *)
(* twelve comparison results.                                              *)
C15_Witness ==
  /\ VerifyAnswered
  /\ Scored
  /\ Len(request.userImages) > 3
  /\ Len(psaRef.allImages) > 5
  /\ Len(response.referenceImages) = 4
  /\ Len(response.comparison) = 12

(* The step is a lookup for a certificate that PSA_CACHE already holds.    *)
CacheHit ==
  /\ psaRef'.called
  /\ request'.certNumber \in DOMAIN PSA_CACHE

(* Whatever the scraping service would answer, a lookup for a cached       *)
(* certificate returns the stored entry and neither writes the cache nor   *)
(* launches a browser.                                                     *)
CachedWithoutContact ==
  \A certNumber \in DOMAIN PSA_CACHE, outcome \in AllOutcomes :
    fetchPSAReference(build, certNumber, PSA_CACHE, FIRECRAWL_API_KEY, browserInstance,
                      outcome)
      = [result |-> PSA_CACHE[certNumber], cache |-> PSA_CACHE,
         browser |-> browserInstance]

ReferenceFailed ==
  /\ CompareAnswered
  /\ psaRef.error = ""
  /\ \E i \in 1..Len(FirstReferences) : FirstReferences[i].img = Null

LoadedReferences == SelectSeq(FirstReferences, LAMBDA refUrl : refUrl.img # Null)

(* C17: in /api/psa-compare a reference image that fails to load is        *)
(* surfaced as a failure of the request; no verdict is computed as if the  *)
(* reference did not exist.                                                *)
C17_FailureSurfaced ==
  ReferenceFailed => ~response.success /\ response.error # "" /\ ~Scored

(* C17's failing case: one of the first three references failed to load    *)
(* and two loaded; the answer is a success, says nothing of the failure,   *)
(* and its verdict is the one the two loaded references alone give.        *)
C17_Witness ==
  /\ ReferenceFailed
  /\ LoadedReferences # <<>>
  /\ response.status = 200
  /\ response.success
  /\ response.error = ""
  /\ Scored
  /\ response.comparison = CompareLoop(request.userImages[1], LoadedReferences)
  /\ Len(response.comparison) = 2
  /\ response.authenticity.score = CompareScore(response.comparison).score

(* /api/psa-verify was sent a certificate number and no lookup reported an *)
(* error for it.                                                           *)
VerifyNotFailed ==
  /\ request.handler = "psa-verify"
  /\ request.certNumber # ""
  /\ psaRef.error = ""

VerifySucceeded ==
  /\ response.status = 200
  /\ response.success
  /\ response.error = ""
  /\ Scored
  /\ response.authenticity.score \in 0..100
  /\ response.authenticity.verdict \in {"LIKELY_AUTHENTIC", "SUSPICIOUS", "LIKELY_FAKE"}

(* C24: a /api/psa-verify request with a certificate whose reference       *)
(* scrape does not fail ends with success true and an authenticity object  *)
(* of score, verdict and warnings.                                         *)
C24_VerifyCompletes == VerifyNotFailed => VerifySucceeded

(* In part_001, where the scraper exists: when the scrape succeeded and    *)
(* every user image that is compared decodes (or no reference downloads,   *)
(* so that nothing is compared), the request ends with success true and an *)
(* authenticity object.                                                    *)
C24_VerifyCompletesWithScraper ==
  ( /\ VerifyAnswered
    /\ build = "part_001"
    /\ psaRef.scraped
    /\ \/ DownloadReferences(psaRef.allImages) = <<>>
       \/ \A i \in 1..Min(3, Len(request.userImages)) : Decodes(request.userImages[i]) )
  => VerifySucceeded

(* C24's failing case: part_002 is sent a certificate the site knows and a *)
(* user image that decodes; the scraper is never called and the answer is  *)
(* a 500 that names the missing function.                                  *)
C24_Witness ==
  /\ VerifyNotFailed
  /\ build = "part_002"
  /\ request.certNumber = "63437557"
  /\ request.userImages = <<"u">>
  /\ ~psaRef.called
  /\ response.status = 500
  /\ ~response.success
  /\ response.error = "scrapePSAWithPuppeteer is not defined"
  /\ ~Scored

(* What /api/psa-compare answers for a user image and a certificate when   *)
(* it is served now, and what it answers when /api/psa-reference is served *)
(* for the certificate first, the services responding the same both times. *)
ComparedDirectly(userImage, certNumber, outcome) ==
  PsaCompareHandler(build, userImage, certNumber, PSA_CACHE, FIRECRAWL_API_KEY,
                    browserInstance, outcome).response

ComparedAfterReference(userImage, certNumber, official, outcome) ==
  LET After(served) ==
        PsaCompareHandler(build, userImage, certNumber, served.cache, FIRECRAWL_API_KEY,
                          served.browser, outcome).response
  IN  After(PsaReferenceHandler(build, certNumber, PSA_CACHE, FIRECRAWL_API_KEY,
                                PSA_API_TOKEN, browserInstance, official, outcome))

ReferenceServedFirstIsUnseen ==
  \A userImage \in UserImageInputs, certNumber \in CertNumbers :
    \A official \in (IF AsksOfficial(build, certNumber, PSA_CACHE, PSA_API_TOKEN)
                     THEN OfficialOutcomes ELSE {"none"}) :
      \A outcome \in OutcomesFor(build, certNumber, PSA_CACHE, FIRECRAWL_API_KEY,
                                 browserInstance) :
        ComparedAfterReference(userImage, certNumber, official, outcome)
          = ComparedDirectly(userImage, certNumber, outcome)

(* C25: for a fixed user image, certificate and fixed responses of the     *)
(* services, /api/psa-compare answers the same whether or not              *)
(* /api/psa-reference was served for the certificate before it.            *)
C25_CompareUnaffected == ReferenceServedFirstIsUnseen

(* The same holds wherever the official API is not asked: in part_001 and  *)
(* in part_002 without PSA_API_TOKEN.                                      *)
C25_UnaffectedWithoutToken == ~PSA_API_TOKEN => ReferenceServedFirstIsUnseen

(* C25's flaw, as it happens: part_002 with both variables set served      *)
(* /api/psa-reference for a certificate through the official API, and the  *)
(* comparison that followed found the stored entry, which has no reference *)
(* images, and answered 50 SUSPICIOUS with nothing compared, where the     *)
(* scrape it would have made delivers a reference image to compare with.   *)
C25_Witness ==
  /\ build = "part_002"
  /\ FIRECRAWL_API_KEY
  /\ PSA_API_TOKEN
  /\ request = Request("psa-compare", <<"u">>, "10000001")
  /\ "10000001" \in DOMAIN PSA_CACHE
  /\ PSA_CACHE["10000001"] = OfficialResult("10000001")
  /\ psaRef = OfficialResult("10000001")
  /\ response.status = 200
  /\ response.comparison = <<>>
  /\ response.authenticity.score = NoReferenceScore
  /\ response.authenticity.verdict = "SUSPICIOUS"
  /\ \E outcome \in FirecrawlOutcomes("10000001") :
       Len(PsaCompareHandler(build, "u", "10000001", <<>>, TRUE, browserInstance,
                             outcome).response.comparison) = 1

(* What a lookup for the certificate would return and leave in the cache   *)
(* in this state, the scraping service answering with the outcome.         *)
LookedUp(certNumber, outcome) ==
  fetchPSAReference(build, certNumber, PSA_CACHE, FIRECRAWL_API_KEY, browserInstance,
                    outcome)

(* The ways a lookup that reaches the scraper can fail: no API key, a      *)
(* non-OK status, an unsuccessful payload, a thrown exception, a browser   *)
(* that does not launch.                                                   *)
LookupFails(certNumber, outcome) ==
  /\ certNumber \notin DOMAIN PSA_CACHE
  /\ \/ build = "part_002" /\ ~FIRECRAWL_API_KEY
     \/ outcome.kind \in {"http", "payload", "throw", "launch"}

(* C27: a failed reference lookup returns an error object with scraped     *)
(* false and leaves PSA_CACHE as it was, so every entry of PSA_CACHE is    *)
(* the result of a successful lookup for its certificate.                  *)
C27_FailureNotCached ==
  /\ \A c \in CertNumbers :
       \A outcome \in OutcomesFor(build, c, PSA_CACHE, FIRECRAWL_API_KEY,
                                  browserInstance) :
         LET Kept(look) ==
               /\ LookupFails(c, outcome) => look.result.error # ""
               /\ look.result.error # "" =>
                    /\ ~look.result.scraped
                    /\ look.result.certNumber = c
                    /\ look.cache = PSA_CACHE
         IN  Kept(LookedUp(c, outcome))
  /\ \A c \in DOMAIN PSA_CACHE :
       /\ PSA_CACHE[c].called
       /\ PSA_CACHE[c].error = ""
       /\ PSA_CACHE[c].certNumber = c
  /\ (psaRef.called /\ psaRef.error # "") =>
       /\ ~psaRef.scraped
       /\ request.certNumber \notin DOMAIN PSA_CACHE

(* C27's case: after one certificate has been scraped and stored, a lookup *)
(* for the other has failed; the answer carries the error, and the cache   *)
(* holds the first certificate only.                                       *)
C27_Witness ==
  /\ psaRef.called
  /\ psaRef.error \in {"Firecrawl API error: 503", "Firecrawl scrape failed",
                       "fetch failed"}
  /\ ~psaRef.scraped
  /\ DOMAIN PSA_CACHE = CertNumbers \ {request.certNumber}
  /\ \A c \in DOMAIN PSA_CACHE : PSA_CACHE[c].scraped

(* The deductions /api/psa-compare took, as its warnings list them.        *)
Deducted(warning) ==
  \E i \in 1..Len(response.authenticity.warnings) :
    response.authenticity.warnings[i] = warning

DeductionsTaken ==
  {w \in {"Low color correlation", "Low structural similarity",
          "Significant sharpness difference"} : Deducted(w)}

(* The threshold conditions that hold of the listed values, in exact       *)
(* arithmetic.                                                             *)
ConditionsHolding ==
  (IF ColorBelow THEN {"color"} ELSE {}) \cup (IF SsimBelow THEN {"ssim"} ELSE {})
  \cup (IF SharpAbove THEN {"sharpness"} ELSE {})

(* On the comparisons the model's images give, the same is true of the     *)
(* conditions taken of the listed values in exact arithmetic.              *)
C29_ExactConditions ==
  CompareScored =>
    /\ response.authenticity.verdict = "LIKELY_FAKE" <=> Cardinality(ConditionsHolding) = 3
    /\ Cardinality(ConditionsHolding) = 1 =>
         response.authenticity.verdict = "LIKELY_AUTHENTIC"

(* C29: in /api/psa-compare with at least one comparison result, the       *)
(* verdict is LIKELY_FAKE exactly when all three deductions are taken; one *)
(* deduction alone leaves it LIKELY_AUTHENTIC; and the score is one of     *)
(* 100, 80, 75, 55, 50 and 30.                                             *)
C29_FakeNeedsAllThree ==
  CompareScored =>
    /\ response.authenticity.verdict = "LIKELY_FAKE" <=> Cardinality(DeductionsTaken) = 3
    /\ Cardinality(DeductionsTaken) = 1 =>
         response.authenticity.verdict = "LIKELY_AUTHENTIC"
    /\ Cardinality(DeductionsTaken) = 2 => response.authenticity.verdict = "SUSPICIOUS"
    /\ response.authenticity.score \in {100, 80, 75, 55, 50, 30}
    /\ Len(response.authenticity.warnings) = Cardinality(DeductionsTaken)

(* C29's case: one comparison result whose colour correlation alone is     *)
(* below its threshold; the score is 75, on the boundary, and the verdict  *)
(* still LIKELY_AUTHENTIC.                                                 *)
C29_Witness ==
  /\ CompareScored
  /\ DeductionsTaken = {"Low color correlation"}
  /\ ConditionsHolding = {"color"}
  /\ response.authenticity.score = 75
  /\ response.authenticity.verdict = "LIKELY_AUTHENTIC"

(***************************************************************************)
(* Properties of the comparator functions, checked under SpecCmp.          *)
(***************************************************************************)
IsOne(ratio) == BnCmp(ratio.n, ratio.d) = 0

IsZero(ratio) == ratio.n = <<>>

SelfCompared == cmpUser.data = cmpRef.data

(* C9: calculateHistogramCorrelation(a, a, w, h) returns 1 for every       *)
(* buffer a, whatever its histogram.                                       *)
C9_SelfCorrelationOne ==
  (SelfCompared /\ cmpMetrics.calls >= 1) => IsOne(cmpMetrics.colorCorrelation)

(* C9's failing case: every histogram bin holds the same count, and the    *)
(* image's correlation with itself is 0.                                   *)
C9_Witness ==
  /\ SelfCompared
  /\ cmpMetrics.calls >= 1
  /\ cmpUser = SpectrumImage
  /\ IsZero(cmpMetrics.colorCorrelation)

(* C10: calculateSSIM(a, a, w, h) returns 1 for every buffer a, constant   *)
(* images included.                                                        *)
C10_SelfSSIMOne == (SelfCompared /\ cmpMetrics.calls >= 2) => IsOne(cmpMetrics.ssim)

(* C10's case: a constant image, whose variance is 0.                      *)
C10_Witness ==
  /\ SelfCompared
  /\ cmpMetrics.calls >= 2
  /\ cmpUser = Tiled(<<"A">>, MaxDim, MaxDim)
  /\ IsOne(cmpMetrics.ssim)

(* One pass of the comparison loop has run on the two buffers.             *)
Compared == cmpMetrics.calls = 3

(* A ratio n / d (or its square root) lies in [0, 1].                      *)
InUnit(ratio) == ratio.d # <<>> /\ BnCmp(ratio.n, ratio.d) <= 0

(* Math.abs(userSharpness - refSharpness) of the pass.                     *)
SharpnessDifference == SharpnessAbsDiff(cmpMetrics.userSharpness, cmpMetrics.refSharpness)

Degenerate(image) == image.width < 3 \/ image.height < 3

(* C11: for any two buffers of the same dimensions the comparison result   *)
(* has colorCorrelation in [0, 1], structural similarity in [0, 1] and a   *)
(* sharpnessDifference that is a number >= 0.                              *)
C11_ResultInRange ==
  Compared =>
    /\ InUnit(cmpMetrics.colorCorrelation)
    /\ InUnit(cmpMetrics.ssim)
    /\ ~SharpnessDifference.nan
    /\ SharpnessDifference.n >= 0
    /\ SharpnessDifference.d > 0

(* The two ratios alone are always in range; a negative correlation is     *)
(* floored to 0.                                                           *)
C11_RatiosInUnit ==
  /\ cmpMetrics.calls >= 1 => InUnit(cmpMetrics.colorCorrelation)
  /\ cmpMetrics.calls >= 2 => InUnit(cmpMetrics.ssim)

(* C11's failing case: buffers with no interior pixel, where both          *)
(* sharpness values and their difference are NaN; the correlation of the   *)
(* two different single-colour images is floored to 0.                     *)
C11_Witness ==
  /\ Compared
  /\ cmpUser = Tiled(<<"A">>, MaxDim, 2)
  /\ cmpRef = Tiled(<<"W">>, MaxDim, 2)
  /\ IsZero(cmpMetrics.colorCorrelation)
  /\ InUnit(cmpMetrics.ssim)
  /\ SharpnessDifference.nan

(* The grey buffer the comparator made of the user's image.                *)
UserGray == rgbToGrayscale(cmpUser.data, cmpUser.width, cmpUser.height)

(* The weighted sum of pixel i of the user's image, in thousandths.        *)
ExactLuma(i) ==
  299 * At(cmpUser.data, 4 * i) + 587 * At(cmpUser.data, 4 * i + 1)
    + 114 * At(cmpUser.data, 4 * i + 2)

(* The user's buffer with every alpha byte replaced.                       *)
WithAlpha(alpha) ==
  [k \in 1..Len(cmpUser.data) |-> IF k % 4 = 0 THEN alpha ELSE cmpUser.data[k]]

(* C23 as stated: entry i of the grey buffer is the weighted sum           *)
(* 0.299 R + 0.587 G + 0.114 B of pixel i rounded to the nearest integer,  *)
(* halves upward.                                                          *)
C23_AsStated ==
  Compared =>
    LET Exact(gray) ==
          \A i \in 0..(cmpUser.width * cmpUser.height - 1) :
            gray[i] = (ExactLuma(i) + 500) \div 1000
    IN  Exact(UserGray)

(* C23, amended: the grey buffer has width * height entries, each in       *)
(* [0,255]; entry i is Math.round of the binary64 sum                      *)
(* 0.299 R + 0.587 G + 0.114 B of pixel i, which is the nearest integer    *)
(* to the exact sum whenever that is not half way between two integers,    *)
(* and one of the two neighbours when it is: (0, 36, 12), whose exact sum  *)
(* is 22.5, maps to 22.  Alpha is ignored and R = G = B = v maps to v.     *)
C23_Grayscale ==
  Compared =>
    LET Rounded(gray) ==
          /\ DOMAIN gray = 0..(cmpUser.width * cmpUser.height - 1)
          /\ \A i \in DOMAIN gray :
               /\ gray[i] \in 0..255
               /\ IF ExactLuma(i) % 1000 = 500
                  THEN gray[i] \in {ExactLuma(i) \div 1000, ExactLuma(i) \div 1000 + 1}
                  ELSE gray[i] = (ExactLuma(i) + 500) \div 1000
               /\ At(cmpUser.data, 4 * i) = 0 /\ At(cmpUser.data, 4 * i + 1) = 36
                    /\ At(cmpUser.data, 4 * i + 2) = 12 => gray[i] = 22
               /\ At(cmpUser.data, 4 * i) = At(cmpUser.data, 4 * i + 1)
                    /\ At(cmpUser.data, 4 * i) = At(cmpUser.data, 4 * i + 2)
                    => gray[i] = At(cmpUser.data, 4 * i)
          /\ rgbToGrayscale(WithAlpha(0), cmpUser.width, cmpUser.height) = gray
          /\ \A v \in 0..255 : Luma(v, v, v) = v
    IN  Rounded(UserGray)

(* C23's case: a 2 x 2 image of (0, 36, 12) and grey 100 has been          *)
(* compared; its grey buffer is 22, 100, 22, 100.                          *)
C23_Witness ==
  /\ Compared
  /\ cmpUser = Tiled(<<"T", "A">>, 2, 2)
  /\ UserGray = [i \in 0..3 |-> IF i % 2 = 0 THEN 22 ELSE 100]

(***************************************************************************)
(* Properties of POST /api/cv.                                             *)
(***************************************************************************)
CvOrder ==
  <<"Canny Edge Detection", "LAB Color Delta-E", "Local Binary Patterns",
    "Histogram of Gradients", "Entropy Analysis", "Laplacian Sharpness",
    "Harris Corner Detection", "Hough Line Transform">>

(* What the eight detectors return for an image, whatever the tier.        *)
CvAnalysis(b, image) ==
  <<cannyEdgeDetection(b, image), labColorDeltaE(b, image), localBinaryPatterns(b, image),
    histogramOfGradients(b, image), entropyAnalysis(b, image), laplacianSharpness(b, image),
    harrisCornerDetection(b, image), houghLineTransform(b, image)>>

CvAnswered == pc = "idle" /\ response.status # 0

CvWellFormed == request.image.kind = "image" /\ request.tier \in CvTiers

(* C6: every answer to a request whose image decodes and whose tier is     *)
(* pro, expert or enterprise carries a results list of exactly 8 entries   *)
(* in the order Canny, Delta-E, LBP, HOG, entropy, Laplacian, Harris,      *)
(* Hough; the list is a function of the image alone, so it is the same     *)
(* for the three tiers; and the list under construction is always a        *)
(* prefix of that order.                                                   *)
C6_EightResultsInOrder ==
  /\ (CvAnswered /\ CvWellFormed) =>
       /\ response.status = 200
       /\ response.algorithmsRun = 8
       /\ Len(response.results) = 8
       /\ \A i \in 1..8 : response.results[i].name = CvOrder[i]
       /\ response.results = CvAnalysis(build, request.image)
  /\ Len(results) <= 8
  /\ \A i \in 1..Len(results) : results[i].name = CvOrder[i]

C6_Witness ==
  /\ CvAnswered
  /\ request.image = TexturedImage
  /\ request.tier = "expert"
  /\ response.status = 200
  /\ response.tier = "EXPERT"
  /\ Len(response.results) = 8

(* C7: each of the 8 results of an answered analysis has a score that is a *)
(* number between 0 and 10, never NaN.                                     *)
C7_ScoresInRange ==
  (CvAnswered /\ response.status = 200) =>
    \A i \in 1..Len(response.results) :
      /\ ~response.results[i].score.nan
      /\ response.results[i].score.v \in 0..100

C7_Witness ==
  /\ CvAnswered
  /\ response.status = 200
  /\ build = "part_002"
  /\ request.image = TexturedImage
  /\ \A i \in 1..8 : ~response.results[i].score.nan /\ response.results[i].score.v \in 0..100
  /\ response.results[1].score.v = 100
  /\ response.results[3].score.v = 33

(* The request's image decodes and has no interior pixel.                  *)
CvDegenerate ==
  /\ request.image.kind = "image"
  /\ (request.image.width < 3 \/ request.image.height < 3)

ZeroScore == Score(FALSE, 0)

(* The server runs one of the two sharp builds.                            *)
SharpBuild == build \in {"part_001", "part_002"}

C13_AllOrNothing ==
  /\ response.status # 0 =>
       /\ pc = "idle"
       /\ results = <<>>
       /\ \/ /\ response.status = 200
             /\ response.success
             /\ response.algorithmsRun = 8
             /\ Len(response.results) = 8
          \/ /\ response.status \in {400, 500}
             /\ ~response.success
             /\ response.error # ""
             /\ response.algorithmsRun = 0
             /\ response.results = <<>>
  /\ response.status = 500 =>
       request.image.kind = "corrupt" /\ response.error = "CV analysis failed"

(* C13's case: the image fails to decode in the first detector.            *)
C13_Witness ==
  /\ request.image = CorruptImage
  /\ request.tier = "pro"
  /\ response.status = 500
  /\ response.results = <<>>
  /\ pc = "idle"
  /\ results = <<>>

(* The request has no image or no valid tier.                              *)
CvInvalid == request.image.kind = "missing" \/ request.tier \notin CvTiers

(* C14: a request without an image, or whose tier is missing or not pro,   *)
(* expert or enterprise, is answered 400 at once: the handler is never     *)
(* past its validation, so no detector runs and the image (decodable or    *)
(* not) is never decoded.  Before the first request nothing is answered.   *)
C14_InvalidRejected ==
  CvInvalid =>
    /\ pc = "idle"
    /\ results = <<>>
    /\ \/ /\ response.status = 400
          /\ response.error = IF request.image.kind = "missing"
                              THEN "No image provided"
                              ELSE "Invalid tier. Must be pro, expert, or enterprise"
          /\ response.algorithmsRun = 0
          /\ response.results = <<>>
       \/ /\ response = NoCvReply
          /\ request = CvRequest(MissingImage, "")

(* C14's case: an image that would not decode, sent with an unknown tier,  *)
(* is answered 400 and not 500.                                            *)
C14_Witness ==
  /\ request.image = CorruptImage
  /\ request.tier = "basic"
  /\ response.status = 400
  /\ response.error = "Invalid tier. Must be pro, expert, or enterprise"
  /\ pc = "idle"

(* The request's image decodes to pixels of one colour.                    *)
CvSingleColour == request.image.kind = "image" /\ Len(request.image.pattern) = 1

(* The result the fifth detector pushed for the request, once it has run.  *)
EntropyResults ==
  (IF Len(results) >= 5 THEN {results[5]} ELSE {})
    \cup (IF response.status = 200 /\ pc = "idle" THEN {response.results[5]} ELSE {})

(* C18: for every image whose pixels all have one colour, whatever its     *)
(* width and height, entropyAnalysis returns entropy 0 and score 0.        *)
C18_SingleColourEntropyZero ==
  CvSingleColour =>
    \A r \in EntropyResults :
      /\ r.name = "Entropy Analysis"
      /\ r.levels = 1
      /\ r.entropy = 0
      /\ r.score = ZeroScore

(* C18's case: a white 3 x 2 image analysed by part_002 and answered with  *)
(* entropy 0, where the same size in two colours has a positive entropy.   *)
C18_Witness ==
  /\ CvAnswered
  /\ build = "part_002"
  /\ request.image = CvImage(<<"W">>, 3, 2)
  /\ response.status = 200
  /\ response.results[5].entropy = 0
  /\ response.results[5].score = ZeroScore
  /\ entropyAnalysis(build, CvImage(<<"A", "W">>, 3, 2)).entropy = 100

(* The result the third detector pushed for the request, once it has run.  *)
LbpResults ==
  (IF Len(results) >= 3 THEN {results[3]} ELSE {})
    \cup (IF response.status = 200 /\ pc = "idle" THEN {response.results[3]} ELSE {})

FullyUniform == Score(FALSE, 10000)

TopScore == Score(FALSE, 100)

CvHasInterior == request.image.width >= 3 /\ request.image.height >= 3

(* Every pixel the LBP loop visits has a pattern without transitions.      *)
NoTransitions(image) ==
  LET Flat(gray) ==
        \A p \in InnerPixels(image.width, image.height, 1) :
          LbpTransitions(gray, image.width, p[1], p[2]) = 0
  IN  Flat(CvGray(image))

(* C19 as stated: for every flat image localBinaryPatterns reports 100%    *)
(* uniformity and score 10, with uniformPatterns = totalPatterns.          *)
C19_AsStated ==
  CvSingleColour =>
    \A r \in LbpResults :
      /\ r.uniformity = FullyUniform
      /\ r.score = TopScore
      /\ r.uniformPatterns = r.totalPatterns

(* C19, amended: for every flat image every interior pixel has a pattern   *)
(* with 0 transitions and uniformPatterns = totalPatterns.  When the image *)
(* has an interior pixel (width >= 3 and height >= 3) the uniformity is    *)
(* 100% and the score 10; when it has none, totalPatterns is 0 and the     *)
(* sharp builds report uniformity 0% and score 0.                          *)
C19_FlatUniform ==
  CvSingleColour =>
    \A r \in LbpResults :
      /\ r.name = "Local Binary Patterns"
      /\ NoTransitions(request.image)
      /\ r.uniformPatterns = r.totalPatterns
      /\ r.totalPatterns = Max(0, request.image.width - 2) * Max(0, request.image.height - 2)
      /\ IF CvHasInterior
         THEN r.uniformity = FullyUniform /\ r.score = TopScore
         ELSE r.totalPatterns = 0 /\
              (SharpBuild => r.uniformity = ZeroScore /\ r.score = ZeroScore)

(* C19's case: the canvas build answered a flat white 3334 x 3 image; all  *)
(* 3332 interior patterns are uniform.                                     *)
C19_Witness ==
  /\ CvAnswered
  /\ build = "server.js"
  /\ request.image = LongFlatImage
  /\ response.status = 200
  /\ response.results[3].totalPatterns = 3332
  /\ response.results[3].uniformPatterns = 3332
  /\ response.results[3].uniformity = FullyUniform
  /\ response.results[3].score = TopScore

(* A watched image has been answered 200 for the second time.              *)
AnalysedTwice == analysed.runs = 2

CvAccepted == request.image.kind = "image" /\ request.tier \in CvTiers

(* C21: the stride of the Delta-E sampling grid is never 0 and the         *)
(* sampling loops end, for every image with width, height >= 1.            *)
C21_StridePositive ==
  CvAccepted => LabStep(build, request.image) >= 1 /\ pc # "stalled"

(* The sharp builds take max(1, floor(sqrt(W * H) / 100)): the stride is   *)
(* positive and the handler is never inside a loop that does not end.      *)
C21_SharpStridePositive ==
  (CvAccepted /\ SharpBuild) =>
    /\ LabStep(build, request.image) = Max(1, Isqrt(request.image.width * request.image.height) \div 100)
    /\ pc # "stalled"

(* C21's failing case: the canvas build on a 3 x 3 image; Canny has        *)
(* returned, the stride is 0 and the handler is inside the sampling loop   *)
(* for good.                                                               *)
C21_Witness ==
  /\ build = "server.js"
  /\ CvAccepted
  /\ request.image.width = 3 /\ request.image.height = 3
  /\ LabStep(build, request.image) = 0
  /\ pc = "stalled"
  /\ Len(results) = 1
  /\ response = NoCvReply

(* The result the sixth detector pushed for the request, once it has run.  *)
LaplacianResults ==
  (IF Len(results) >= 6 THEN {results[6]} ELSE {})
    \cup (IF response.status = 200 /\ pc = "idle" THEN {response.results[6]} ELSE {})

ToFixedZero(value) == Score(value.nan, IF value.nan THEN 0 ELSE ToFixedRat(value.n, value.d, 1))

(* calculateSharpness of the request's image, as toFixed(0) prints it.     *)
ComparatorSharpness ==
  LET Of(image) == ToFixedZero(calculateSharpness(image.data, image.width, image.height))
  IN  Of(Tiled(request.image.pattern, request.image.width, request.image.height))

(* C22: for every image with width, height >= 3 the detector's Laplacian   *)
(* variance and the comparator's calculateSharpness are the same value.    *)
C22_SameSharpness ==
  (CvAccepted /\ CvHasInterior) =>
    \A r \in LaplacianResults : r.variance = ComparatorSharpness

(* C22's failing case: a 3 x 3 image with one interior pixel whose         *)
(* Laplacian response is not 0.  The detector reports the square of the    *)
(* response; the comparator subtracts the squared mean and reports 0.      *)
C22_Witness ==
  /\ CvAnswered
  /\ build = "part_002"
  /\ request.image = CvImage(<<"A", "W">>, 3, 3)
  /\ response.status = 200
  /\ response.results[6].count = 1
  /\ response.results[6].variance.v > 0
  /\ ComparatorSharpness = ZeroScore

(* The result the seventh detector pushed for the request, once it has     *)
(* run.                                                                    *)
HarrisResults ==
  (IF Len(results) >= 7 THEN {results[7]} ELSE {})
    \cup (IF response.status = 200 /\ pc = "idle" THEN {response.results[7]} ELSE {})

(* A 3 x 3 grey image whose centre has the four given neighbours.          *)
Cross(left, right, up, down) ==
  [i \in 0..8 |-> CASE i = 3 -> left [] i = 5 -> right [] i = 1 -> up [] i = 7 -> down
                    [] OTHER -> 0]

GreyLevels == {0, 100, 255}

(* C30: harrisCornerDetection reports corners = 0 and score 0.0 for every  *)
(* image: the response at a pixel is never above the threshold, whatever   *)
(* its four neighbours are.                                                *)
C30_NoCorners ==
  /\ \A r \in HarrisResults : r.corners = 0 /\ r.score = Score(FALSE, 0)
  /\ \A left \in GreyLevels, right \in GreyLevels, up \in GreyLevels, down \in GreyLevels :
       ~HarrisCorner(Cross(left, right, up, down), 3, 1, 1)

(* C30's case: the textured 5 x 5 image answered; at its one pixel inside  *)
(* the margin of two the grey level changes in both directions, and no     *)
(* corner is counted.                                                      *)
C30_Witness ==
  /\ response.status = 200
  /\ pc = "idle"
  /\ request.image = TexturedImage
  /\ response.results[7].name = "Harris Corner Detection"
  /\ response.results[7].corners = 0
  /\ response.results[7].score = Score(FALSE, 0)
  /\ LET Steep(gray) == /\ gray[2 * 5 + 3] - gray[2 * 5 + 1] = 155
                        /\ gray[3 * 5 + 2] - gray[1 * 5 + 2] = -150
     IN  Steep(CvGray(TexturedImage))

(***************************************************************************)
(* Claims about concurrent lookups.                                        *)
(***************************************************************************)
(* C26: once PSA_CACHE holds an entry for a certificate, no step of any    *)
(* request replaces it with a different value, under any interleaving of   *)
(* concurrent requests for that certificate.                               *)
C26_EntryNeverReplaced ==
  [][\A c \in DOMAIN PSA_CACHE : c \in DOMAIN PSA_CACHE' /\ PSA_CACHE'[c] = PSA_CACHE[c]]_vars

(* C26's flaw, as it happens: two lookups for one certificate were in      *)
(* flight together in part_002, both missed the cache and both wrote it.   *)
(* The scrape stored a result with a reference image; the official-API     *)
(* path of /api/psa-reference, which had checked the cache before the      *)
(* scrape stored, then replaced it by its own entry, which has none.       *)
C26_Witness ==
  /\ build = "part_002"
  /\ lookups[1] = Lookup("done", "lookup", "10000001", "null", 0,
                         LookupResult("10000001", <<CertUrl("p")>>, <<CertUrl("p")>>),
                         TRUE)
  /\ lookups[2] = Lookup("done", "psa-reference", "10000001", "null", 0,
                         OfficialResult("10000001"), TRUE)
  /\ PSA_CACHE["10000001"] = OfficialResult("10000001")

(* The lookups that got a browser from getBrowser.                         *)
GotBrowser == {s \in Slots : lookups[s].browser # "null"}

(* C28: getBrowser is a get-or-create singleton.  As long as no launch has *)
(* failed, puppeteer.launch has been called at most once, and all callers  *)
(* of getBrowser received the same instance.                               *)
C28_LaunchedOnce ==
  launches.failed = 0 =>
    /\ launches.invoked <= 1
    /\ \A s \in GotBrowser, t \in GotBrowser : lookups[s].browser = lookups[t].browser

(* Requests that come one after the other do share one browser: when no    *)
(* launch is pending and none has failed, a lookup that begins is given    *)
(* the instance browserInstance holds and launches nothing.                *)
C28_ReusedWhenLaunched ==
  (browserInstance # "null" /\ build = "part_001") =>
    \A c \in CertNumbers, r \in LookupRoutes :
      LET Given(start) == start.pc # "launch"
                          /\ (start.pc = "scrape" => start.browser = browserInstance)
      IN  Given(IF r = "psa-reference"
                THEN ReferenceStart(build, c, PSA_CACHE, FIRECRAWL_API_KEY, PSA_API_TOKEN,
                                    browserInstance, launches.invoked)
                ELSE ScrapeStart(build, r, c, PSA_CACHE, FIRECRAWL_API_KEY,
                                 browserInstance, launches.invoked))

(* C28's flaw, as it happens: two scrapes of part_001 began while          *)
(* browserInstance was null; each called puppeteer.launch, neither launch  *)
(* failed, each request works with its own browser, and browserInstance    *)
(* holds the one whose launch settled last.                                *)
C28_Witness ==
  /\ build = "part_001"
  /\ launches = [invoked |-> 2, failed |-> 0]
  /\ lookups[1].pc = "done"
  /\ lookups[2].pc = "done"
  /\ lookups[1].browser = Browsers[1]
  /\ lookups[2].browser = Browsers[2]
  /\ lookups[1].result.scraped
  /\ lookups[2].result.scraped
  /\ browserInstance \in {Browsers[1], Browsers[2]}

====
